---- MODULE Spec2Model ----
(***************************************************************************)
(* Model of the cleaning pipeline of ClimateAirQualityAnalyzer             *)
(* (src/src/data_processor.py, class DataProcessor) over small tables.     *)
(*                                                                         *)
(* A table (pandas DataFrame) is a record [columns, rows]: columns is the  *)
(* sequence of column names, rows the sequence of rows in positional       *)
(* order, each row a function from the column names to cells.              *)
(* A numeric cell is an exact rational <<n, d>> with d > 0 in lowest       *)
(* terms; the missing value NaN is <<0, 0>>.                               *)
(***************************************************************************)
EXTENDS Integers, Sequences, FiniteSets, TLC

VARIABLES pc, data, modified_data_frame, raised, columns_threshold,
          rows_threshold, steps, log, first_result, str_cols, heap, self_ref,
          calls, rows_data, df, raw_file, selected_stations,
          latest_fetched_date, param_file, stations_names_ids, fetch_counter,
          months, station_no_data_counter, returned, current_station_name,
          station_index, retry, date_picker, row_number, retry_count

vars == <<pc, data, modified_data_frame, raised, columns_threshold,
          rows_threshold, steps, log, first_result, str_cols, heap, self_ref,
          calls, rows_data, df, raw_file, selected_stations,
          latest_fetched_date, param_file, stations_names_ids, fetch_counter,
          months, station_no_data_counter, returned, current_station_name,
          station_index, retry, date_picker, row_number, retry_count>>

\* the parameter file, the loops of the acquirers over stations, months,
\* pages and attempts, and what their functions returned
loops == <<param_file, stations_names_ids, fetch_counter, months,
           station_no_data_counter, returned, current_station_name,
           station_index, retry, date_picker, row_number, retry_count>>

\* the state of the two acquirers and of the raw file they append to
acquirers == <<rows_data, df, raw_file, selected_stations, latest_fetched_date,
               loops>>

\* what the variables of the single-stage runs leave alone: the designated
\* columns of normalize_features, the objects of the runs of several calls
\* and the acquirers
other_runs == <<str_cols, heap, self_ref, calls, acquirers>>

----------------------------------------------------------------------------
(* Cells *)

NA == <<0, 0>>

None == <<0, 0>>

Num(n) == <<n, 1>>

IsNA(v) == v[2] = 0

Abs(n) == IF n < 0 THEN -n ELSE n

RECURSIVE GCD(_, _)
GCD(a, b) == IF b = 0 THEN a ELSE GCD(b, a % b)

Rat(n, d) ==
    LET g == GCD(Abs(n), d)
    IN  <<n \div g, d \div g>>

\* pandas comparisons: any comparison with NaN or with a None scalar is False
Lt(a, b) == ~IsNA(a) /\ ~IsNA(b) /\ a[1] * b[2] < b[1] * a[2]

Gt(a, b) == Lt(b, a)

\* Series.clip(lower, upper): a None bound does not clip, NaN stays NaN
Clip(v, lower, upper) ==
    IF Lt(v, lower) THEN lower
    ELSE IF Gt(v, upper) THEN upper
    ELSE v

----------------------------------------------------------------------------
(* Tables *)

base_columns == <<"Station", "Date", "Time">>

numeric_cols == <<"Pressure", "RH", "Temp", "WD", "WS", "PREC",
                  "NO", "NO2", "NOX", "O3", "PM10", "PM2.5">>

DF_COLUMNS == base_columns \o numeric_cols

Range(s) == {s[i] : i \in 1..Len(s)}

\* Op applied to the value of x, with x computed a single time
Once(Op(_), x) == CHOOSE y \in {Op(v) : v \in {x}} : TRUE

\* pd.DataFrame(): no columns, no rows
EmptyDataFrame == [columns |-> <<>>, rows |-> <<>>]

\* DataFrame.empty: some axis has length 0
IsEmpty(T) == Len(T.rows) = 0 \/ Len(T.columns) = 0

\* the state of a DataProcessor between calls when nothing was computed
NoSteps == [filled |-> EmptyDataFrame, dropped |-> EmptyDataFrame,
            pruned |-> EmptyDataFrame]

NoLog == [all_missing_rows |-> 0, columns_count |-> 0, columns |-> {},
          corrupt_rows |-> 0]

\* no function of the acquirers has returned
NoReturn ==
    [fetch_all_data |-> <<>>, fetch_station_data |-> <<>>,
     init_page_params |-> <<>>]

\* the parameter file when it does not exist
NoFile == [kind |-> "absent", object |-> <<>>]

\* no loop of an acquirer has started
NoLoops ==
    /\ param_file = NoFile
    /\ stations_names_ids = <<>>
    /\ fetch_counter = 0
    /\ months = <<>>
    /\ station_no_data_counter = 0
    /\ returned = NoReturn
    /\ current_station_name = ""
    /\ station_index = 0
    /\ retry = 0
    /\ date_picker = <<>>
    /\ row_number = 1
    /\ retry_count = 0

\* before any acquisition: no row fetched, a raw file without rows, the
\* first month as the range of each station to fetch and no date fetched by the scraper
NoAcquisition ==
    /\ rows_data = <<>>
    /\ df = <<>>
    /\ raw_file = <<>>
    /\ selected_stations = [station \in {"A", "B"} |-> <<1, 1>>]
    /\ latest_fetched_date = <<>>
    /\ NoLoops

\* a run of one stage designates no columns and keeps no objects
NoOtherRuns ==
    /\ str_cols = <<>>
    /\ heap = <<>>
    /\ self_ref = 0
    /\ calls = <<>>
    /\ NoAcquisition

----------------------------------------------------------------------------
(* detect_and_handle_outliers *)

acceptable_ranges ==
    << [variable |-> "RH",   min_val |-> Num(0),   max_val |-> Num(100)],
       [variable |-> "Temp", min_val |-> Num(-50), max_val |-> Num(60)],
       [variable |-> "WD",   min_val |-> Num(0),   max_val |-> Num(360)],
       [variable |-> "WS",   min_val |-> Num(0),   max_val |-> None],
       [variable |-> "PREC", min_val |-> Num(0),   max_val |-> None],
       [variable |-> "NO",   min_val |-> Num(0),   max_val |-> None],
       [variable |-> "NO2",  min_val |-> Num(0),   max_val |-> None],
       [variable |-> "NOX",  min_val |-> Num(0),   max_val |-> None],
       [variable |-> "O3",   min_val |-> Num(0),   max_val |-> None],
       [variable |-> "PM10", min_val |-> Num(0),   max_val |-> None] >>

outliers_variable_WholeColumn(T, k) ==
    LET rng == acceptable_ranges[k]
    IN  IF \E i \in 1..Len(T.rows) :
              \/ Lt(T.rows[i][rng.variable], rng.min_val)
              \/ Gt(T.rows[i][rng.variable], rng.max_val)
        THEN 1..Len(T.rows)
        ELSE {}

\* column[(column < min_val) | (column > max_val)]: the row positions
outliers_variable(T, k) ==
    LET rng == acceptable_ranges[k]
    IN  {i \in 1..Len(T.rows) :
            \/ Lt(T.rows[i][rng.variable], rng.min_val)
            \/ Gt(T.rows[i][rng.variable], rng.max_val)}

\* the loop variables (min_val, max_val) as the detection loop leaves them:
\* the handling loop of lines 305-308 reads them after that loop has ended
ClipBounds(k) == acceptable_ranges[Len(acceptable_ranges)]

detect_and_handle_outliers_DropsOutlierRows(T) ==
    IF IsEmpty(T)
    THEN [raised |-> "", frame |-> EmptyDataFrame]
    ELSE IF \E k \in 1..Len(acceptable_ranges) :
               acceptable_ranges[k].variable \notin Range(T.columns)
    THEN [raised |-> "KeyError", frame |-> T]
    ELSE [raised |-> "",
          frame  |-> [columns |-> T.columns,
                      rows |-> SelectSeq(T.rows, LAMBDA r :
                                  \A k \in 1..Len(acceptable_ranges) :
                                      LET rng == acceptable_ranges[k]
                                      IN  /\ ~Lt(r[rng.variable], rng.min_val)
                                          /\ ~Gt(r[rng.variable], rng.max_val))]]

detect_and_handle_outliers(T) ==
    IF IsEmpty(T)
    THEN [raised |-> "", frame |-> EmptyDataFrame]
    ELSE IF \E k \in 1..Len(acceptable_ranges) :
               acceptable_ranges[k].variable \notin Range(T.columns)
    THEN [raised |-> "KeyError", frame |-> T]
    ELSE
      LET Handled(i, c) ==
            IF \E k \in 1..Len(acceptable_ranges) :
                  acceptable_ranges[k].variable = c /\ i \in outliers_variable(T, k)
            THEN LET k == CHOOSE k \in 1..Len(acceptable_ranges) :
                                acceptable_ranges[k].variable = c
                 IN  Clip(T.rows[i][c], ClipBounds(k).min_val, ClipBounds(k).max_val)
            ELSE T.rows[i][c]
      IN [raised |-> "",
          frame  |-> [columns |-> T.columns,
                      rows |-> [i \in 1..Len(T.rows) |->
                                  [c \in Range(T.columns) |-> Handled(i, c)]]]]

----------------------------------------------------------------------------
(* Input tables for the outlier stage: full schema, one varied cell a row *)

MaxRowsOutliers == 2

OutlierCells == {NA, Num(-60), Num(-10), Num(0), Num(50), Num(150), Num(400)}

Stations == {"A", "B"}

\* a date after conversion is <<year, month, day>>, a time <<hour, minute>>
CleanRow(st, date, time, c, cell, base) ==
    [col \in Range(DF_COLUMNS) |->
        IF col = "Station" THEN st
        ELSE IF col = "Date" THEN date
        ELSE IF col = "Time" THEN time
        ELSE IF col = c THEN cell
        ELSE base]

OutlierRows ==
    {CleanRow(st, <<2020, 1, 1>>, <<7, 0>>, c, cell, Num(10)) :
        st \in {"A"}, c \in {"Pressure", "RH", "Temp", "WD", "PM10", "PM2.5"},
        cell \in OutlierCells}
    \cup {CleanRow("B", <<2020, 1, 1>>, <<7, 0>>, "Temp", cell, Num(10)) :
             cell \in {Num(-60), Num(150)}}

RECURSIVE SeqsUpTo(_, _)
SeqsUpTo(S, n) ==
    IF n = 0 THEN {<<>>}
    ELSE LET shorter == SeqsUpTo(S, n - 1)
         IN  shorter \cup {Append(s, x) : s \in {t \in shorter : Len(t) = n - 1}, x \in S}

InitOutliers ==
    /\ pc = "outliers"
    /\ data \in {[columns |-> DF_COLUMNS, rows |-> rs] :
                    rs \in SeqsUpTo(OutlierRows, MaxRowsOutliers)}
    /\ modified_data_frame = EmptyDataFrame
    /\ raised = ""
    /\ columns_threshold = 70
    /\ rows_threshold = 3
    /\ steps = NoSteps
    /\ log = NoLog
    /\ first_result = EmptyDataFrame
    /\ NoOtherRuns

DetectAndHandleOutliers ==
    /\ pc = "outliers"
    /\ LET res == detect_and_handle_outliers(data)
       IN  /\ modified_data_frame' = res.frame
           /\ raised' = res.raised
    /\ pc' = "outliers_done"
    /\ UNCHANGED <<other_runs, data, columns_threshold, rows_threshold, steps, log, first_result>>

NextOutliers == DetectAndHandleOutliers

SpecOutliers == InitOutliers /\ [][NextOutliers]_vars

----------------------------------------------------------------------------
(* Claims about detect_and_handle_outliers *)

InRange(v, rng) == IsNA(v) \/ (~Lt(v, rng.min_val) /\ ~Gt(v, rng.max_val))

\* C1: after detect_and_handle_outliers returns, every non-missing value of a
\* field with a configured range lies within that field's own [min, max].
C1_RangeInvariant ==
    (pc = "outliers_done" /\ raised = "") =>
        \A i \in 1..Len(modified_data_frame.rows) :
            \A k \in 1..Len(acceptable_ranges) :
                InRange(modified_data_frame.rows[i][acceptable_ranges[k].variable],
                        acceptable_ranges[k])

\* C2: every value strictly below its field's min is replaced by that field's
\* min, every value strictly above its field's max by that field's max.
C2_ClampToOwnBound ==
    (pc = "outliers_done" /\ raised = "" /\ ~IsEmpty(data)) =>
        \A i \in 1..Len(data.rows) :
            \A k \in 1..Len(acceptable_ranges) :
                LET rng == acceptable_ranges[k]
                    old == data.rows[i][rng.variable]
                    new == modified_data_frame.rows[i][rng.variable]
                IN  /\ Lt(old, rng.min_val) => new = rng.min_val
                    /\ Gt(old, rng.max_val) => new = rng.max_val

\* the fields with a configured range
RangedVariables == {acceptable_ranges[k].variable : k \in 1..Len(acceptable_ranges)}

\* the range configured for a ranged field
RangeOf(c) ==
    acceptable_ranges[CHOOSE k \in 1..Len(acceptable_ranges) :
                          acceptable_ranges[k].variable = c]

\* C13: detect_and_handle_outliers leaves unchanged every value of a field
\* without a configured range (Pressure, PM2.5, the key columns), every value
\* that already lies within its field's range, and every missing value.
C13_OnlyOutliersChange ==
    (pc = "outliers_done" /\ ~IsEmpty(data)) =>
        /\ raised = ""
        /\ Len(modified_data_frame.rows) = Len(data.rows)
        /\ \A i \in 1..Len(data.rows) :
               \A c \in Range(data.columns) :
                   (c \notin RangedVariables \/ InRange(data.rows[i][c], RangeOf(c)))
                       => modified_data_frame.rows[i][c] = data.rows[i][c]

\* a table where one row holds an out-of-range Temp that is replaced and the
\* other an extreme reading of an unranged field, a missing value or an
\* in-range negative Temp, all three cases being reached
C13_Witness ==
    /\ pc = "outliers_done"
    /\ Len(data.rows) = 2
    /\ data.rows[1]["Temp"] = Num(-60)
    /\ modified_data_frame.rows[1]["Temp"] # Num(-60)
    /\ \/ data.rows[2]["PM2.5"] = Num(400)
       \/ IsNA(data.rows[2]["RH"])
       \/ data.rows[2]["Temp"] = Num(-10)
    /\ modified_data_frame.rows[2] = data.rows[2]

----------------------------------------------------------------------------
(* handle_duplicates *)

subset_columns == <<"Station", "Date", "Time">>

KeyOf(r) == <<r["Station"], r["Date"], r["Time"]>>

\* order of the station names (string comparison)
StationRank(st) == IF st = "A" THEN 1 ELSE IF st = "B" THEN 2 ELSE 3

RECURSIVE TupleLess(_, _)
TupleLess(a, b) ==
    IF Len(a) = 0 \/ Len(b) = 0 THEN Len(a) < Len(b)
    ELSE IF Head(a) # Head(b) THEN Head(a) < Head(b)
    ELSE TupleLess(Tail(a), Tail(b))

\* lexicographic order on (Station, Date, Time)
KeyLess(k1, k2) ==
    IF k1[1] # k2[1] THEN StationRank(k1[1]) < StationRank(k2[1])
    ELSE IF k1[2] # k2[2] THEN TupleLess(k1[2], k2[2])
    ELSE TupleLess(k1[3], k2[3])

\* DataFrame.drop_duplicates(keep='last'): a row goes when an identical row follows
drop_duplicates(T) ==
    LET Keep(i) == \A j \in (i + 1)..Len(T.rows) : T.rows[j] # T.rows[i]
        F[i \in 0..Len(T.rows)] ==
            IF i = 0 THEN <<>>
            ELSE IF Keep(i) THEN Append(F[i - 1], T.rows[i]) ELSE F[i - 1]
    IN  [columns |-> T.columns, rows |-> F[Len(T.rows)]]

RatAdd(a, b) == Rat(a[1] * b[2] + b[1] * a[2], a[2] * b[2])

RECURSIVE SumSeq(_)
SumSeq(vals) ==
    IF vals = <<>> THEN Num(0) ELSE RatAdd(Head(vals), SumSeq(Tail(vals)))

NotNA(v) == ~IsNA(v)

mean_CountsMissing(vals) ==
    LET present == SelectSeq(vals, NotNA)
        total   == SumSeq(present)
    IN  IF present = <<>> THEN NA
        ELSE Rat(total[1], total[2] * Len(vals))

mean_OffByOne(vals) ==
    LET present == SelectSeq(vals, NotNA)
        total   == SumSeq(present)
    IN  IF present = <<>> THEN NA
        ELSE Rat(total[1], total[2] * (Len(present) + 1))

\* GroupBy.mean(): NaN is skipped, a group with no value gives NaN
mean(vals) ==
    LET present == SelectSeq(vals, NotNA)
        total   == SumSeq(present)
    IN  IF present = <<>> THEN NA
        ELSE Rat(total[1], total[2] * Len(present))

\* the group keys in ascending order (groupby sorts its keys)
RECURSIVE SortKeys(_)
SortKeys(S) ==
    IF S = {} THEN <<>>
    ELSE LET least == CHOOSE k \in S : \A o \in S \ {k} : KeyLess(k, o)
         IN  <<least>> \o SortKeys(S \ {least})

groupby_mean_NoGrouping(T) == T

\* groupby(subset_columns).mean().reset_index()
groupby_mean(T) ==
    LET keys == SortKeys({KeyOf(T.rows[i]) : i \in 1..Len(T.rows)})
        Group(k) == SelectSeq(T.rows, LAMBDA r : KeyOf(r) = k)
        Column(g, c) == [i \in 1..Len(g) |-> g[i][c]]
    IN  [columns |-> T.columns,
         rows |-> [n \in 1..Len(keys) |->
                    [c \in Range(T.columns) |->
                        IF c = "Station" THEN keys[n][1]
                        ELSE IF c = "Date" THEN keys[n][2]
                        ELSE IF c = "Time" THEN keys[n][3]
                        ELSE mean(Column(Group(keys[n]), c))]]]

handle_duplicates(T) ==
    IF IsEmpty(T) THEN EmptyDataFrame
    ELSE groupby_mean(drop_duplicates(T))

MaxRowsDuplicates == 3

DuplicateCells == {NA, Num(1000), Num(1011)}

DuplicateKeys == {<<"A", <<2020, 1, 1>>, <<7, 0>>>>,
                  <<"A", <<2020, 1, 1>>, <<13, 0>>>>,
                  <<"B", <<2020, 1, 1>>, <<7, 0>>>>}

DuplicateRows ==
    {CleanRow(k[1], k[2], k[3], c, cell, NA) :
        k \in DuplicateKeys, c \in {"Pressure", "RH"}, cell \in DuplicateCells}

InitDuplicates ==
    /\ pc = "duplicates"
    /\ data \in {[columns |-> DF_COLUMNS, rows |-> rs] :
                    rs \in SeqsUpTo(DuplicateRows, MaxRowsDuplicates)}
    /\ modified_data_frame = EmptyDataFrame
    /\ raised = ""
    /\ columns_threshold = 70
    /\ rows_threshold = 3
    /\ steps = NoSteps
    /\ log = NoLog
    /\ first_result = EmptyDataFrame
    /\ NoOtherRuns

HandleDuplicates ==
    /\ pc = "duplicates"
    /\ modified_data_frame' = handle_duplicates(data)
    /\ pc' = "duplicates_done"
    /\ UNCHANGED <<other_runs, data, raised, columns_threshold, rows_threshold, steps, log,
                   first_result>>

\* the caller passes the returned table to handle_duplicates again
HandleDuplicatesAgain ==
    /\ pc = "duplicates_done"
    /\ first_result' = modified_data_frame
    /\ modified_data_frame' = handle_duplicates(modified_data_frame)
    /\ pc' = "duplicates_twice"
    /\ UNCHANGED <<other_runs, data, raised, columns_threshold, rows_threshold, steps, log>>

NextDuplicates == HandleDuplicates \/ HandleDuplicatesAgain

SpecDuplicates == InitDuplicates /\ [][NextDuplicates]_vars

----------------------------------------------------------------------------
(* Claims about handle_duplicates *)

\* C4: for every non-empty input the output of handle_duplicates has at most
\* as many rows as the input and no two rows with the same (Station, Date,
\* Time) key.
C4_RowCountAndUniqueKey ==
    (pc = "duplicates_done" /\ ~IsEmpty(data)) =>
        /\ Len(modified_data_frame.rows) <= Len(data.rows)
        /\ \A i, j \in 1..Len(modified_data_frame.rows) :
              i # j => KeyOf(modified_data_frame.rows[i]) # KeyOf(modified_data_frame.rows[j])

C4_Witness ==
    /\ pc = "duplicates_done"
    /\ Len(data.rows) = 3
    /\ Len(modified_data_frame.rows) = 2
    /\ \A i, j \in 1..3 : i # j => data.rows[i] # data.rows[j]

\* the distinct rows of the input that carry key k
DistinctRowsOf(T, k) == {r \in Range(T.rows) : KeyOf(r) = k}

RECURSIVE SumOver(_, _)
SumOver(R, c) ==
    IF R = {} THEN Num(0)
    ELSE LET r == CHOOSE x \in R : TRUE
         IN  RatAdd(r[c], SumOver(R \ {r}, c))

\* C5: exact duplicates are removed first; then each (Station, Date, Time)
\* group yields one row whose measurement fields are the arithmetic mean of
\* the non-missing values of the group's remaining rows, and missing when the
\* field is missing in all of them.
C5_GroupMean ==
    (pc = "duplicates_done" /\ ~IsEmpty(data)) =>
        LET keys == {KeyOf(r) : r \in Range(data.rows)}
            out  == modified_data_frame.rows
        IN  /\ Len(out) = Cardinality(keys)
            /\ \A k \in keys :
                 \E n \in 1..Len(out) :
                    /\ KeyOf(out[n]) = k
                    /\ \A c \in Range(numeric_cols) :
                         LET present == {r \in DistinctRowsOf(data, k) : ~IsNA(r[c])}
                             total   == SumOver(present, c)
                         IN  IF present = {} THEN IsNA(out[n][c])
                             ELSE /\ ~IsNA(out[n][c])
                                  /\ out[n][c][1] * total[2] * Cardinality(present)
                                        = total[1] * out[n][c][2]

\* rows of one key with pressure 1000, 1011 and 1000 again (the first row
\* repeated) become one row with pressure 2011/2, not 3011/3
C5_Witness ==
    /\ pc = "duplicates_done"
    /\ Len(data.rows) = 3
    /\ data.rows[1] = data.rows[3]
    /\ data.rows[1]["Pressure"] = Num(1000)
    /\ data.rows[2]["Pressure"] = Num(1011)
    /\ Len(modified_data_frame.rows) = 1
    /\ modified_data_frame.rows[1]["Pressure"] = Rat(2011, 2)
    /\ IsNA(modified_data_frame.rows[1]["RH"])

\* C6: handle_duplicates is idempotent: applied to its own output it returns
\* the same rows, in the same order, with the same values.
C6_Idempotent ==
    pc = "duplicates_twice" => modified_data_frame = first_result

C6_Witness ==
    /\ pc = "duplicates_twice"
    /\ Len(data.rows) = 3
    /\ Len(first_result.rows) = 2
    /\ \E n \in 1..2 : first_result.rows[n]["Pressure"] = Rat(2011, 2)
    /\ KeyOf(data.rows[1]) # KeyOf(first_result.rows[1])

----------------------------------------------------------------------------
(* handle_missing_values *)

HOURS_PER_DAY == <<<<1, 0>>, <<7, 0>>, <<13, 0>>, <<19, 0>>>>

days_limit == 2

\* columns[3:]: the columns after the first three
ColumnsFrom4(T) == SubSeq(T.columns, 4, Len(T.columns))

\* the measurement columns by name: columns.difference(subset_columns)
ColumnsDifference(T) == Range(T.columns) \ Range(subset_columns)

\* the slot i of the pass: val is the last valid value, fill_count the number
\* of slots filled since it
RECURSIVE pad_loop_FillsOneMore(_, _, _, _, _, _)
pad_loop_FillsOneMore(col, limit, i, val, fill_count, out) ==
    IF i > Len(col) THEN out
    ELSE IF IsNA(col[i])
    THEN IF fill_count > limit
         THEN pad_loop_FillsOneMore(col, limit, i + 1, val, fill_count, Append(out, col[i]))
         ELSE pad_loop_FillsOneMore(col, limit, i + 1, val, fill_count + 1, Append(out, val))
    ELSE pad_loop_FillsOneMore(col, limit, i + 1, col[i], 0, Append(out, col[i]))

RECURSIVE pad_loop(_, _, _, _, _, _)
pad_loop(col, limit, i, val, fill_count, out) ==
    IF i > Len(col) THEN out
    ELSE IF IsNA(col[i])
    THEN IF fill_count >= limit
         THEN pad_loop(col, limit, i + 1, val, fill_count, Append(out, col[i]))
         ELSE pad_loop(col, limit, i + 1, val, fill_count + 1, Append(out, val))
    ELSE pad_loop(col, limit, i + 1, col[i], 0, Append(out, col[i]))

\* fillna(method='ffill', limit): one pass over a column, starting with the
\* first cell as the value to carry
pad(col, limit) ==
    IF Len(col) = 0 THEN col ELSE pad_loop(col, limit, 1, col[1], 0, <<>>)

fill_missing_values(T, column_to_fill) ==
    IF IsEmpty(T) THEN EmptyDataFrame
    ELSE
      LET limit == Len(HOURS_PER_DAY) * days_limit
          Assign(filled) ==
            [columns |-> T.columns,
             rows |-> [i \in 1..Len(T.rows) |->
                         [c \in Range(T.columns) |->
                             IF c \in Range(column_to_fill) THEN filled[c][i]
                             ELSE T.rows[i][c]]]]
      IN  Once(Assign, [c \in Range(column_to_fill) |->
                           pad([i \in 1..Len(T.rows) |-> T.rows[i][c]], limit)])

dropna_all_DropsAnyMissing(T, subset) ==
    [columns |-> T.columns,
     rows |-> SelectSeq(T.rows, LAMBDA r : \A c \in subset : ~IsNA(r[c]))]

\* dropna(subset, how='all'): a row goes when all its subset cells are missing
dropna_all(T, subset) ==
    [columns |-> T.columns,
     rows |-> SelectSeq(T.rows, LAMBDA r : \E c \in subset : ~IsNA(r[c]))]

\* isnull() of the cell of column c: Station, Date and Time are always set
isnull(c, v) == c \notin Range(base_columns) /\ IsNA(v)

\* the number of missing cells of column c
MissingInColumn(T, c) == Cardinality({i \in 1..Len(T.rows) : isnull(c, T.rows[i][c])})

DropColumns(T, remove) ==
    LET kept == SelectSeq(T.columns, LAMBDA c : c \notin remove)
    IN  [columns |-> kept,
         rows |-> [i \in 1..Len(T.rows) |-> [c \in Range(kept) |-> T.rows[i][c]]]]

columns_to_remove_AtThreshold(T, threshold) ==
    {c \in Range(T.columns) : MissingInColumn(T, c) * 100 >= threshold * Len(T.rows)}

\* missing_percentages[missing_percentages > threshold].index
columns_to_remove(T, threshold) ==
    {c \in Range(T.columns) : MissingInColumn(T, c) * 100 > threshold * Len(T.rows)}

remove_corrupted_columns(T, threshold) ==
    IF IsEmpty(T) THEN EmptyDataFrame
    ELSE DropColumns(T, columns_to_remove(T, threshold))

\* the number of non-missing cells of a row
NonMissingInRow(T, r) == Cardinality({c \in Range(T.columns) : ~isnull(c, r[c])})

\* dropna(thresh): a row stays when it has at least thresh non-missing cells
dropna_thresh(T, thresh) ==
    [columns |-> T.columns,
     rows |-> SelectSeq(T.rows, LAMBDA r : NonMissingInRow(T, r) >= thresh)]

remove_corrupt_rows_ThreshIsMaxMissing(T, number_of_max_missing_cols) ==
    IF IsEmpty(T) THEN EmptyDataFrame
    ELSE dropna_thresh(T, number_of_max_missing_cols)

remove_corrupt_rows(T, number_of_max_missing_cols) ==
    IF IsEmpty(T) THEN EmptyDataFrame
    ELSE dropna_thresh(T, Len(T.columns) - number_of_max_missing_cols)

\* the stage with the tables between its sub-steps and what it logs
handle_missing_values(T, col_threshold, row_threshold) ==
    IF IsEmpty(T)
    THEN [frame |-> EmptyDataFrame, steps |-> NoSteps, log |-> NoLog]
    ELSE
      LET Logged(filled, dropped, pruned, result) ==
            [frame |-> result,
             steps |-> [filled |-> filled, dropped |-> dropped, pruned |-> pruned],
             log   |-> [all_missing_rows |-> Len(T.rows) - Len(dropped.rows),
                        columns_count    |-> Len(T.columns) - Len(result.columns),
                        columns          |-> Range(T.columns) \ Range(result.columns),
                        corrupt_rows     |-> Len(pruned.rows) - Len(result.rows)]]
          Rows(filled, dropped, pruned) ==
            LET Rest(result) == Logged(filled, dropped, pruned, result)
            IN  Once(Rest, remove_corrupt_rows(pruned, row_threshold))
          Cols(filled, dropped) ==
            LET Rest(pruned) == Rows(filled, dropped, pruned)
            IN  Once(Rest, remove_corrupted_columns(dropped, col_threshold))
          Drop(filled) ==
            LET Rest(dropped) == Cols(filled, dropped)
            IN  Once(Rest, dropna_all(filled, ColumnsDifference(filled)))
      IN  Once(Drop, fill_missing_values(T, ColumnsFrom4(T)))

----------------------------------------------------------------------------
(* Input tables for handle_missing_values *)

MaxRowsMissing == 3

MaxLongRows == 11

MissingKeys == {<<"A", <<2020, 1, 1>>, <<7, 0>>>>,
                <<"A", <<2020, 1, 1>>, <<13, 0>>>>,
                <<"B", <<2020, 1, 1>>, <<7, 0>>>>}

\* short tables in any row order: RH and Temp vary, the other fields are base
ShortRows(base) ==
    {[CleanRow(k[1], k[2], k[3], "RH", rh, base) EXCEPT !["Temp"] = temp] :
        k \in MissingKeys, rh \in {NA, Num(1)}, temp \in {NA, Num(2)}}

\* a column of n cells: lead missing cells, a value, gap missing cells, then
\* a second value down to the end
ShapedCell(i, lead, gap, v1, v2) ==
    IF i <= lead THEN NA
    ELSE IF i = lead + 1 THEN v1
    ELSE IF i <= lead + 1 + gap THEN NA
    ELSE v2

\* the i-th sampling slot of station A: four readings a day
SlotDate(i) == <<2020, 1, 1 + ((i - 1) \div Len(HOURS_PER_DAY))>>

SlotTime(i) == HOURS_PER_DAY[1 + ((i - 1) % Len(HOURS_PER_DAY))]

LongTable(n, l1, g1, l2, g2, base) ==
    [columns |-> DF_COLUMNS,
     rows |-> [i \in 1..n |->
                 [CleanRow("A", SlotDate(i), SlotTime(i), "RH",
                           ShapedCell(i, l1, g1, Num(1), Num(3)), base)
                     EXCEPT !["Temp"] = ShapedCell(i, l2, g2, Num(2), Num(4))]]]

Shapes(n) == {<<n, 0>>} \cup {<<l, g>> \in (0..(n - 1)) \X (0..(n - 1)) : l + g < n}

LongTables(base) ==
    {LongTable(n, s1[1], s1[2], s2[1], s2[2], base) :
        n \in {10, MaxLongRows}, s1 \in Shapes(MaxLongRows),
        s2 \in Shapes(MaxLongRows)}

ShortTables ==
    {[columns |-> DF_COLUMNS, rows |-> rs] :
        rs \in SeqsUpTo(ShortRows(NA), MaxRowsMissing)}

\* a row whose first k measurement fields are missing, the others present
RaggedRow(k) ==
    [col \in Range(DF_COLUMNS) |->
        IF col = "Station" THEN "A"
        ELSE IF col = "Date" THEN <<2020, 1, 1>>
        ELSE IF col = "Time" THEN <<7, 0>>
        ELSE IF \E i \in 1..k : numeric_cols[i] = col THEN NA
        ELSE Num(10)]

\* tables whose rows miss none, two, three or four fields
RaggedTables ==
    {[columns |-> DF_COLUMNS, rows |-> rs] :
        rs \in SeqsUpTo({RaggedRow(k) : k \in {0, 2, 3, 4}}, MaxRowsMissing)}

InitMissing ==
    /\ pc = "missing"
    /\ \/ /\ data \in RaggedTables
          /\ columns_threshold = 70
          /\ rows_threshold = 3
       \/ /\ data \in ShortTables
          /\ \E t \in {<<10, 0>>, <<70, 3>>} :
                /\ columns_threshold = t[1]
                /\ rows_threshold = t[2]
       \/ /\ \E t \in {<<NA, 10>>, <<Num(10), 70>>} :
                /\ data \in LongTables(t[1])
                /\ columns_threshold = t[2]
          /\ rows_threshold = 3
    /\ modified_data_frame = EmptyDataFrame
    /\ raised = ""
    /\ steps = NoSteps
    /\ log = NoLog
    /\ first_result = EmptyDataFrame
    /\ NoOtherRuns

HandleMissingValues ==
    /\ pc = "missing"
    /\ \E res \in {handle_missing_values(data, columns_threshold, rows_threshold)} :
           /\ modified_data_frame' = res.frame
           /\ steps' = res.steps
           /\ log' = res.log
    /\ pc' = "missing_done"
    /\ UNCHANGED <<other_runs, data, raised, columns_threshold, rows_threshold, first_result>>

NextMissing == HandleMissingValues

SpecMissing == InitMissing /\ [][NextMissing]_vars

----------------------------------------------------------------------------
(* Claims about handle_missing_values *)

\* the last row before row i whose cell of column c is not missing, 0 if none
LastValidBefore(T, c, i) ==
    LET valid == {j \in 1..(i - 1) : ~IsNA(T.rows[j][c])}
    IN  IF valid = {} THEN 0 ELSE CHOOSE j \in valid : \A o \in valid : o <= j

\* the cells the forward-fill wrote: missing in the input, set after the fill
Written(c, i) == IsNA(data.rows[i][c]) /\ ~IsNA(steps.filled.rows[i][c])

\* C7: in every run of consecutive missing values of a measurement field only
\* slots among the first 8 of the run are filled, each with the last preceding
\* non-missing value; slots beyond the 8th stay missing and a run with no
\* preceding value is not filled.
C7_ForwardFillBound ==
    (pc = "missing_done" /\ ~IsEmpty(data)) =>
        \A c \in Range(numeric_cols) : \A i \in 1..Len(data.rows) :
            LET j == LastValidBefore(data, c, i)
            IN  /\ Written(c, i) =>
                    /\ j # 0
                    /\ i - j <= 8
                    /\ steps.filled.rows[i][c] = data.rows[j][c]
                /\ (IsNA(data.rows[i][c]) /\ (j = 0 \/ i - j > 8)) =>
                    IsNA(steps.filled.rows[i][c])

\* RH is read once and then missing in 10 rows: 8 are filled, 2 stay missing
C7_Witness ==
    /\ pc = "missing_done"
    /\ Len(data.rows) = 11
    /\ data.rows[1]["RH"] = Num(1)
    /\ \A i \in 2..11 : IsNA(data.rows[i]["RH"])
    /\ \A i \in 2..9 : steps.filled.rows[i]["RH"] = Num(1)
    /\ IsNA(steps.filled.rows[10]["RH"])
    /\ IsNA(steps.filled.rows[11]["RH"])

\* (Date, Time) of row r is earlier than that of row q
Earlier(r, q) ==
    IF r["Date"] # q["Date"] THEN TupleLess(r["Date"], q["Date"])
    ELSE TupleLess(r["Time"], q["Time"])

\* C8: every value the forward-fill writes into a row is copied from a row of
\* the same station with an earlier (date, time).
C8_FillWithinStationForwardInTime ==
    (pc = "missing_done" /\ ~IsEmpty(data)) =>
        \A c \in Range(numeric_cols) : \A i \in 1..Len(data.rows) :
            Written(c, i) =>
                LET j == LastValidBefore(data, c, i)
                IN  /\ j # 0
                    /\ data.rows[j]["Station"] = data.rows[i]["Station"]
                    /\ Earlier(data.rows[j], data.rows[i])

\* all measurement fields of row r of table T are missing
AllMissing(T, r) == \A c \in Range(T.columns) \ Range(base_columns) : IsNA(r[c])

\* the all-missing drop removes exactly the rows all-missing after the fill
ExactAllMissingDrop ==
    /\ \A r \in Range(steps.dropped.rows) :
          ~AllMissing(steps.dropped, r) /\ r \in Range(steps.filled.rows)
    /\ \A r \in Range(steps.filled.rows) :
          ~AllMissing(steps.filled, r) =>
              Cardinality({i \in 1..Len(steps.dropped.rows) : steps.dropped.rows[i] = r})
                = Cardinality({i \in 1..Len(steps.filled.rows) : steps.filled.rows[i] = r})

\* C9 as stated: the output of handle_missing_values has no row whose
\* measurement fields are all missing, and the all-missing drop removes exactly
\* the rows all-missing after the forward-fill.
C9_NoAllMissingRowInOutput ==
    (pc = "missing_done" /\ ~IsEmpty(data)) =>
        /\ \A r \in Range(modified_data_frame.rows) : ~AllMissing(modified_data_frame, r)
        /\ ExactAllMissingDrop

\* C9 amended: the table the all-missing drop produces has no all-missing row,
\* the drop removes exactly the rows all-missing after the forward-fill, and
\* every row of the output is a row of that table cut to the surviving columns.
C9_AllMissingDropExact ==
    (pc = "missing_done" /\ ~IsEmpty(data)) =>
        /\ ExactAllMissingDrop
        /\ \A r \in Range(modified_data_frame.rows) :
              \E q \in Range(steps.dropped.rows) :
                  r = [c \in Range(modified_data_frame.columns) |-> q[c]]

\* row 1 stays empty and goes; row 3 is empty in the input, is filled from
\* row 2 and is kept
C9_Witness ==
    /\ pc = "missing_done"
    /\ Len(data.rows) = 3
    /\ AllMissing(steps.filled, steps.filled.rows[1])
    /\ AllMissing(data, data.rows[3])
    /\ ~AllMissing(steps.filled, steps.filled.rows[3])
    /\ steps.dropped.rows = <<steps.filled.rows[2], steps.filled.rows[3]>>
    /\ Len(modified_data_frame.rows) = 2

\* column c of the table given to column pruning exceeds the threshold
AboveThreshold(c) ==
    Cardinality({i \in 1..Len(steps.dropped.rows) : isnull(c, steps.dropped.rows[i][c])}) * 100
        > columns_threshold * Len(steps.dropped.rows)

MissingInRow(T, r) == Cardinality({c \in Range(T.columns) : isnull(c, r[c])})

----------------------------------------------------------------------------
(* The two stages that rewrite cells in place: clamping and forward-fill *)

InitClampFill == InitOutliers \/ InitMissing

NextClampFill == DetectAndHandleOutliers \/ HandleMissingValues

SpecClampFill == InitClampFill /\ [][NextClampFill]_vars

\* tables U and T have the same number of rows and, position by position, the
\* same (Station, Date, Time)
SameKeysInOrder(T, U) ==
    /\ Len(U.rows) = Len(T.rows)
    /\ \A i \in 1..Len(T.rows) : KeyOf(U.rows[i]) = KeyOf(T.rows[i])

\* C12: for a non-empty input, detect_and_handle_outliers and the forward-fill
\* of handle_missing_values return a table with as many rows as the input,
\* in the input's order and with the input's (Station, Date, Time) keys.
C12_RowsOrderKeysPreserved ==
    /\ (pc = "outliers_done" /\ ~IsEmpty(data)) =>
           /\ raised = ""
           /\ modified_data_frame.columns = data.columns
           /\ SameKeysInOrder(data, modified_data_frame)
    /\ (pc = "missing_done" /\ ~IsEmpty(data)) =>
           /\ steps.filled.columns = data.columns
           /\ SameKeysInOrder(data, steps.filled)

\* a table of stations B then A whose out-of-range Temp readings are replaced
C12_Witness ==
    /\ pc = "outliers_done"
    /\ Len(data.rows) = 2
    /\ data.rows[1]["Station"] = "B"
    /\ data.rows[2]["Station"] = "A"
    /\ data.rows[1]["Temp"] = Num(-60)
    /\ data.rows[2]["Temp"] = Num(-60)
    /\ modified_data_frame.rows[1]["Temp"] # Num(-60)
    /\ modified_data_frame.rows[2]["Temp"] # Num(-60)

----------------------------------------------------------------------------
(* What handle_missing_values logs *)

\* the columns whose missing percentage, on the table given to column
\* pruning, exceeds columns_threshold
ColumnsAboveThreshold == {c \in Range(steps.dropped.columns) : AboveThreshold(c)}

\* C21: for every non-empty input, also one whose rows are all removed, the
\* count logged for the all-missing drop is the number of rows that step
\* removed, and the count and names logged for column pruning are those of
\* the columns removed because their missing percentage exceeded
\* columns_threshold.
C21_LogsWhatWasRemoved ==
    (pc = "missing_done" /\ ~IsEmpty(data)) =>
        /\ log.all_missing_rows = Len(steps.filled.rows) - Len(steps.dropped.rows)
        /\ log.columns = ColumnsAboveThreshold
        /\ log.columns_count = Cardinality(ColumnsAboveThreshold)

----------------------------------------------------------------------------
(* convert_data_types *)

(* A raw table holds text: a Date cell <<d, m, y>> stands for "dd/mm/yyyy", *)
(* a Time cell <<h, mi>> for "hh:mi", and a measurement cell is            *)
(* [kind, value]: kind "number" for text that reads as the number value,    *)
(* "NaN" for an empty cell and "text" for a marker such as NoData or InVld. *)

RawNumber(n) == [kind |-> "number", value |-> Num(n)]

RawNaN == [kind |-> "NaN", value |-> NA]

RawText == [kind |-> "text", value |-> NA]

IsLeap(y) == (y % 4 = 0 /\ y % 100 # 0) \/ y % 400 = 0

DaysInMonth(m, y) ==
    IF m = 2 THEN (IF IsLeap(y) THEN 29 ELSE 28)
    ELSE IF m \in {4, 6, 9, 11} THEN 30
    ELSE 31

\* strptime(text, '%d/%m/%Y') succeeds
ParsesAsDate(t) ==
    /\ t[2] \in 1..12
    /\ t[1] \in 1..DaysInMonth(t[2], t[3])
    /\ t[3] \in 1..9999

\* strptime(text, '%H:%M') succeeds
ParsesAsTime(t) == t[1] \in 0..23 /\ t[2] \in 0..59

\* to_datetime(format='%d/%m/%Y') then strftime('%Y/%m/%d')
FormatDate(t) == <<t[3], t[2], t[1]>>

to_numeric_ZeroForText(cell) == IF cell.kind = "number" THEN cell.value ELSE Num(0)

\* pd.to_numeric(errors='coerce') of one cell
to_numeric(cell) == IF cell.kind = "number" THEN cell.value ELSE NA

RECURSIVE InsertByKey_BeforeEqual(_, _)
InsertByKey_BeforeEqual(sorted, r) ==
    IF sorted = <<>> THEN <<r>>
    ELSE IF ~KeyLess(KeyOf(Head(sorted)), KeyOf(r)) THEN <<r>> \o sorted
    ELSE <<Head(sorted)>> \o InsertByKey_BeforeEqual(Tail(sorted), r)

\* a stable insertion of row r into rows sorted by (Station, Date, Time)
RECURSIVE InsertByKey(_, _)
InsertByKey(sorted, r) ==
    IF sorted = <<>> THEN <<r>>
    ELSE IF KeyLess(KeyOf(r), KeyOf(Head(sorted))) THEN <<r>> \o sorted
    ELSE <<Head(sorted)>> \o InsertByKey(Tail(sorted), r)

\* sort_values(by=base_columns): stable, ascending
RECURSIVE sort_values(_)
sort_values(rows) ==
    IF rows = <<>> THEN <<>>
    ELSE InsertByKey(sort_values(SubSeq(rows, 1, Len(rows) - 1)), rows[Len(rows)])

convert_data_types(T) ==
    IF IsEmpty(T)
    THEN [raised |-> "", frame |-> EmptyDataFrame]
    ELSE IF \E i \in 1..Len(T.rows) : ~ParsesAsDate(T.rows[i]["Date"])
    THEN [raised |-> "ValueError", frame |-> T]
    ELSE IF \E i \in 1..Len(T.rows) : ~ParsesAsTime(T.rows[i]["Time"])
    THEN [raised |-> "ValueError", frame |-> T]
    ELSE
      LET Typed(r) ==
            [c \in Range(T.columns) |->
                IF c = "Date" THEN FormatDate(r[c])
                ELSE IF c \in Range(numeric_cols) THEN to_numeric(r[c])
                ELSE r[c]]
      IN  [raised |-> "",
           frame  |-> [columns |-> T.columns,
                       rows |-> sort_values([i \in 1..Len(T.rows) |-> Typed(T.rows[i])])]]

----------------------------------------------------------------------------
(* normalize_features *)

\* Series.unique(): the values in order of first appearance
RECURSIVE unique(_)
unique(vals) ==
    IF vals = <<>> THEN <<>>
    ELSE LET before == unique(SubSeq(vals, 1, Len(vals) - 1))
             last   == vals[Len(vals)]
         IN  IF last \in Range(before) THEN before ELSE Append(before, last)

replace_map_ZeroBased(uniques, v) ==
    (CHOOSE i \in 1..Len(uniques) : uniques[i] = v) - 1

\* {uni_val: i + 1 for i, uni_val in enumerate(unique_values_column)}
replace_map(uniques, v) == CHOOSE i \in 1..Len(uniques) : uniques[i] = v

RECURSIVE normalize_columns(_, _)
normalize_columns(T, str_columns) ==
    IF str_columns = <<>> THEN T
    ELSE LET column == Head(str_columns)
             Replace(uniques) ==
               [columns |-> T.columns,
                rows |-> [i \in 1..Len(T.rows) |->
                            [T.rows[i] EXCEPT ![column] = Num(replace_map(uniques, @))]]]
         IN  normalize_columns(
                 Once(Replace, unique([i \in 1..Len(T.rows) |-> T.rows[i][column]])),
                 Tail(str_columns))

normalize_features(T, str_columns) ==
    IF IsEmpty(T)
    THEN [raised |-> "", frame |-> EmptyDataFrame]
    ELSE IF \E k \in 1..Len(str_columns) : str_columns[k] \notin Range(T.columns)
    THEN [raised |-> "KeyError", frame |-> T]
    ELSE [raised |-> "", frame |-> normalize_columns(T, str_columns)]

----------------------------------------------------------------------------
(* The stages run in order on a raw table, each on the table the one before *)
(* returned; a stage that raises ends the run.                              *)

MaxRowsPipeline == 2

RawRow(st, date, time, c, cell, base) ==
    [col \in Range(DF_COLUMNS) |->
        IF col = "Station" THEN st
        ELSE IF col = "Date" THEN date
        ELSE IF col = "Time" THEN time
        ELSE IF col = c THEN cell
        ELSE base]

\* the dates are those the acquirers write: 01/02/2020 and 02/01/2020
RawRows(base) ==
    {RawRow(st, date, <<7, 0>>, c, cell, base) :
        st \in Stations,
        date \in {<<1, 2, 2020>>, <<2, 1, 2020>>},
        c \in {"RH", "WD"},
        cell \in {RawNumber(400), RawText}}

InitPipeline ==
    /\ pc = "convert_data_types"
    /\ data \in {[columns |-> DF_COLUMNS, rows |-> rs] :
                    rs \in SeqsUpTo(RawRows(RawNumber(10)), MaxRowsPipeline)}
    /\ modified_data_frame = EmptyDataFrame
    /\ raised = ""
    /\ columns_threshold = 70
    /\ rows_threshold = 3
    /\ steps = NoSteps
    /\ log = NoLog
    /\ first_result = EmptyDataFrame
    /\ NoOtherRuns

\* what a stage leaves: its table and the next stage, or the exception
StageEnds(res, next) ==
    /\ modified_data_frame' = res.frame
    /\ raised' = res.raised
    /\ pc' = IF res.raised = "" THEN next ELSE "failed"

PipelineConvertDataTypes ==
    /\ pc = "convert_data_types"
    /\ \E res \in {convert_data_types(data)} : StageEnds(res, "handle_duplicates")
    /\ UNCHANGED <<other_runs, data, columns_threshold, rows_threshold, steps, log, first_result>>

PipelineHandleDuplicates ==
    /\ pc = "handle_duplicates"
    /\ \E res \in {handle_duplicates(modified_data_frame)} :
          StageEnds([raised |-> "", frame |-> res], "handle_missing_values")
    /\ UNCHANGED <<other_runs, data, columns_threshold, rows_threshold, steps, log, first_result>>

PipelineHandleMissingValues ==
    /\ pc = "handle_missing_values"
    /\ \E res \in {handle_missing_values(modified_data_frame, columns_threshold,
                                         rows_threshold)} :
          /\ StageEnds([raised |-> "", frame |-> res.frame], "detect_and_handle_outliers")
          /\ steps' = res.steps
          /\ log' = res.log
    /\ UNCHANGED <<other_runs, data, columns_threshold, rows_threshold, first_result>>

PipelineDetectAndHandleOutliers ==
    /\ pc = "detect_and_handle_outliers"
    /\ \E res \in {detect_and_handle_outliers(modified_data_frame)} :
          StageEnds(res, "normalize_features")
    /\ UNCHANGED <<other_runs, data, columns_threshold, rows_threshold, steps, log, first_result>>

PipelineNormalizeFeatures ==
    /\ pc = "normalize_features"
    /\ \E res \in {normalize_features(modified_data_frame, <<"Station">>)} :
          StageEnds(res, "completed")
    /\ UNCHANGED <<other_runs, data, columns_threshold, rows_threshold, steps, log, first_result>>

NextPipeline ==
    \/ PipelineConvertDataTypes
    \/ PipelineHandleDuplicates
    \/ PipelineHandleMissingValues
    \/ PipelineDetectAndHandleOutliers
    \/ PipelineNormalizeFeatures

SpecPipeline == InitPipeline /\ [][NextPipeline]_vars

\* C3: on a schema-conformant raw table the stages convert_data_types,
\* handle_duplicates, handle_missing_values, detect_and_handle_outliers,
\* normalize_features run to completion without raising, whatever the values.
C3_PipelineNeverRaises == raised = "" /\ pc # "failed"

----------------------------------------------------------------------------
(* convert_data_types on its own: raw tables in any row order *)

MaxRowsConvert == 3

\* 02/01/2020 precedes 01/02/2020 in time and follows it as day-first text
ConvertKeys == {<<"B", <<2, 1, 2020>>, <<7, 0>>>>,
                <<"A", <<1, 2, 2020>>, <<7, 0>>>>,
                <<"A", <<2, 1, 2020>>, <<13, 0>>>>,
                <<"A", <<2, 1, 2020>>, <<7, 0>>>>}

\* a reading whose first or last measurement field holds a marker such as
\* NoData, or whose RH is another number
ConvertRows ==
    {RawRow(k[1], k[2], k[3], v[1], v[2], RawNumber(10)) :
        k \in ConvertKeys,
        v \in {<<"Pressure", RawText>>, <<"PM2.5", RawText>>,
               <<"RH", RawNumber(50)>>}}

InitConvert ==
    /\ pc = "convert"
    /\ data \in {[columns |-> DF_COLUMNS, rows |-> rs] :
                    rs \in SeqsUpTo(ConvertRows, MaxRowsConvert)}
    /\ modified_data_frame = EmptyDataFrame
    /\ raised = ""
    /\ columns_threshold = 70
    /\ rows_threshold = 3
    /\ steps = NoSteps
    /\ log = NoLog
    /\ first_result = EmptyDataFrame
    /\ NoOtherRuns

ConvertDataTypes ==
    /\ pc = "convert"
    /\ \E res \in {convert_data_types(data)} :
           /\ modified_data_frame' = res.frame
           /\ raised' = res.raised
    /\ pc' = "convert_done"
    /\ UNCHANGED <<other_runs, data, columns_threshold, rows_threshold, steps, log, first_result>>

NextConvert == ConvertDataTypes

SpecConvert == InitConvert /\ [][NextConvert]_vars

----------------------------------------------------------------------------
(* Claims about convert_data_types *)

\* what a raw measurement cell is expected to become: its number, or missing
CoercedCell(cell) == IF cell.kind = "number" THEN cell.value ELSE NA

\* what a raw row is expected to become: Date as year/month/day, the twelve
\* measurement fields coerced, Station and Time as they are
ConvertedRow(r) ==
    [c \in DOMAIN r |->
        IF c = "Date" THEN <<r[c][3], r[c][2], r[c][1]>>
        ELSE IF c \in Range(numeric_cols) THEN CoercedCell(r[c])
        ELSE r[c]]

\* the one-to-one maps of 1..n onto itself
RowOrders(n) ==
    {p \in [1..n -> 1..n] : \A i, j \in 1..n : p[i] = p[j] => i = j}

\* C14: the output of convert_data_types is a permutation of the input's
\* rows, non-decreasing in (Station, Date as year/month/day, Time), and rows
\* with equal keys keep the order they had in the input.
C14_StableSortedPermutation ==
    (pc = "convert_done" /\ ~IsEmpty(data)) =>
        LET out == modified_data_frame.rows
            n   == Len(data.rows)
        IN  /\ raised = ""
            /\ Len(out) = n
            /\ \A i \in 1..(n - 1) : ~KeyLess(KeyOf(out[i + 1]), KeyOf(out[i]))
            /\ \E p \in RowOrders(n) :
                   /\ \A i \in 1..n : out[i] = ConvertedRow(data.rows[p[i]])
                   /\ \A i, j \in 1..n :
                          (i < j /\ KeyOf(out[i]) = KeyOf(out[j])) => p[i] < p[j]

\* three rows arrive in descending key order, two of them with the same key
\* and different readings: the output is reordered and the two keep their order
C14_Witness ==
    /\ pc = "convert_done"
    /\ Len(data.rows) = 3
    /\ data.rows[1]["Station"] = "B"
    /\ data.rows[2]["Station"] = "A" /\ data.rows[2]["Date"] = <<1, 2, 2020>>
    /\ data.rows[3]["Station"] = "A" /\ data.rows[3]["Date"] = <<1, 2, 2020>>
    /\ data.rows[2] # data.rows[3]
    /\ modified_data_frame.rows[1] = ConvertedRow(data.rows[2])
    /\ modified_data_frame.rows[2] = ConvertedRow(data.rows[3])
    /\ modified_data_frame.rows[3] = ConvertedRow(data.rows[1])

\* how many rows of the sequence rows equal row r
Occurrences(rows, r) == Cardinality({i \in 1..Len(rows) : rows[i] = r})

\* C15: convert_data_types coerces each measurement cell on its own: text
\* that reads as a number becomes that number, any other text becomes
\* missing; the call does not raise and the output holds exactly the input's
\* rows, every other cell of them as it was up to the Date format.
C15_CoercePerCell ==
    (pc = "convert_done" /\ ~IsEmpty(data)) =>
        /\ raised = ""
        /\ modified_data_frame.columns = data.columns
        /\ Len(modified_data_frame.rows) = Len(data.rows)
        /\ \A i \in 1..Len(data.rows) :
               LET expected == ConvertedRow(data.rows[i])
               IN  Occurrences(modified_data_frame.rows, expected) =
                       Cardinality({j \in 1..Len(data.rows) :
                                       ConvertedRow(data.rows[j]) = expected})

\* a NoData marker in Pressure of one row and in PM2.5 of another become
\* missing while the RH reading 50 of a third row stays 50
C15_Witness ==
    /\ pc = "convert_done"
    /\ raised = ""
    /\ \E i \in 1..Len(data.rows) : data.rows[i]["Pressure"] = RawText
    /\ \E i \in 1..Len(data.rows) : data.rows[i]["PM2.5"] = RawText
    /\ \E i \in 1..Len(modified_data_frame.rows) :
           /\ IsNA(modified_data_frame.rows[i]["Pressure"])
           /\ modified_data_frame.rows[i]["PM2.5"] = Num(10)
    /\ \E i \in 1..Len(modified_data_frame.rows) :
           IsNA(modified_data_frame.rows[i]["PM2.5"])
    /\ \E i \in 1..Len(modified_data_frame.rows) :
           modified_data_frame.rows[i]["RH"] = Num(50)

----------------------------------------------------------------------------
(* normalize_features on its own: stations in any order of first appearance *)

MaxRowsNormalize == 3

NormalizeRows ==
    {CleanRow(st, date, <<7, 0>>, "RH", Num(50), Num(10)) :
        st \in {"A", "B", "C"}, date \in {<<2020, 1, 1>>, <<2020, 1, 2>>}}

InitNormalize ==
    /\ pc = "normalize"
    /\ data \in {[columns |-> DF_COLUMNS, rows |-> rs] :
                    rs \in SeqsUpTo(NormalizeRows, MaxRowsNormalize)}
    /\ str_cols \in {<<"Station">>, <<"Station", "Date">>}
    /\ modified_data_frame = EmptyDataFrame
    /\ raised = ""
    /\ columns_threshold = 70
    /\ rows_threshold = 3
    /\ steps = NoSteps
    /\ log = NoLog
    /\ first_result = EmptyDataFrame
    /\ heap = <<>>
    /\ self_ref = 0
    /\ calls = <<>>
    /\ NoAcquisition

NormalizeFeatures ==
    /\ pc = "normalize"
    /\ \E res \in {normalize_features(data, str_cols)} :
           /\ modified_data_frame' = res.frame
           /\ raised' = res.raised
    /\ pc' = "normalize_done"
    /\ UNCHANGED <<other_runs, data, columns_threshold, rows_threshold, steps,
                   log, first_result>>

NextNormalize == NormalizeFeatures

SpecNormalize == InitNormalize /\ [][NextNormalize]_vars

\* the cells of column c of table T, top to bottom
ColumnOf(T, c) == [i \in 1..Len(T.rows) |-> T.rows[i][c]]

\* the position at which the value of cell i of col first appears
FirstSeen(col, i) ==
    CHOOSE j \in 1..i : col[j] = col[i] /\ \A h \in 1..(j - 1) : col[h] # col[i]

\* C17: normalize_features replaces, in each designated column, the k distinct
\* values by the integers 1..k in order of first appearance: the first row's
\* value becomes 1, two cells get the same code exactly when they held the
\* same value, and the columns not designated are unchanged.
C17_CodesInFirstSeenOrder ==
    (pc = "normalize_done" /\ ~IsEmpty(data)) =>
        /\ raised = ""
        /\ modified_data_frame.columns = data.columns
        /\ Len(modified_data_frame.rows) = Len(data.rows)
        /\ \A c \in Range(data.columns) \ Range(str_cols) :
               ColumnOf(modified_data_frame, c) = ColumnOf(data, c)
        /\ \A c \in Range(str_cols) :
               LET old == ColumnOf(data, c)
                   new == ColumnOf(modified_data_frame, c)
                   k   == Cardinality(Range(old))
               IN  /\ Range(new) = {Num(code) : code \in 1..k}
                   /\ new[1] = Num(1)
                   /\ \A i, j \in 1..Len(old) :
                          /\ (new[i] = new[j]) <=> (old[i] = old[j])
                          /\ FirstSeen(old, i) < FirstSeen(old, j)
                                 => new[i][1] < new[j][1]

\* stations C, A, C in this order become 1, 2, 1 and the two dates 1, 2, 1
\* although A sorts before C
C17_Witness ==
    /\ pc = "normalize_done"
    /\ str_cols = <<"Station", "Date">>
    /\ ColumnOf(data, "Station") = <<"C", "A", "C">>
    /\ ColumnOf(data, "Date") = << <<2020, 1, 2>>, <<2020, 1, 1>>, <<2020, 1, 2>> >>
    /\ ColumnOf(modified_data_frame, "Station") = <<Num(1), Num(2), Num(1)>>
    /\ ColumnOf(modified_data_frame, "Date") = <<Num(1), Num(2), Num(1)>>

----------------------------------------------------------------------------
(* Several calls on one DataProcessor.  A DataFrame object is a record      *)
(* [frame, kind]: frame is its table and kind tells what its cells hold,    *)
(* "raw" text, "clean" typed values, "coded" normalised columns, "empty"    *)
(* for a table without rows or columns; kind "None" stands for the null     *)
(* reference.  heap lists the objects a caller can hold, the tables it      *)
(* built and every object a call created; self_ref is the position of the   *)
(* object bound to self.modified_data_frame, 0 before the first binding.    *)

MaxCalls == 2

NoneObject == [frame |-> EmptyDataFrame, kind |-> "None"]

\* __init__ binds self.modified_data_frame to the class pd.DataFrame
ClassObject == [frame |-> EmptyDataFrame, kind |-> "class"]

Object(T, kind) == [frame |-> T, kind |-> IF IsEmpty(T) THEN "empty" ELSE kind]

empty_result_None == NoneObject

\* return pd.DataFrame()
empty_result == Object(EmptyDataFrame, "empty")

copy_SameObject(h, ref) == [heap |-> h, ref |-> ref]

\* data.copy(): a new object with the cells of object ref
copy(h, ref) == [heap |-> Append(h, h[ref]), ref |-> Len(h) + 1]

working_frame_KeepsEarlier(self_obj, copied) ==
    IF self_obj.kind = copied.kind THEN self_obj ELSE copied

\* self.modified_data_frame = data.copy(): what the stage reads from then on
working_frame(self_obj, copied) == copied

\* the cells a stage can read
Accepts(stage) ==
    IF stage = "convert_data_types" THEN {"None", "empty", "raw"}
    ELSE IF stage = "normalize_features" THEN {"None", "empty", "clean", "coded"}
    ELSE {"None", "empty", "clean"}

\* the arguments of a call besides the table
Arguments(stage) ==
    IF stage = "handle_missing_values"
    THEN {[columns_threshold |-> t[1], rows_threshold |-> t[2], str_columns |-> <<>>] :
             t \in {<<70, 3>>, <<10, 0>>}}
    ELSE IF stage = "normalize_features"
    THEN {[columns_threshold |-> 70, rows_threshold |-> 3, str_columns |-> sc] :
             sc \in {<<"Station">>, <<"Station", "RH">>}}
    ELSE {[columns_threshold |-> 70, rows_threshold |-> 3, str_columns |-> <<>>]}

\* one call of a stage on a processor whose self.modified_data_frame is
\* self_obj: the exception, whether the call returned before copying, and
\* the object it leaves
stage_result(self_obj, data_obj, call) ==
    IF data_obj.kind = "None" \/ IsEmpty(data_obj.frame)
    THEN [raised |-> "", early |-> TRUE, object |-> empty_result]
    ELSE
      LET T == working_frame(self_obj, data_obj).frame
          Done(res) ==
            [raised |-> res.raised,
             early  |-> FALSE,
             object |-> Object(res.frame,
                               IF res.raised # "" THEN data_obj.kind
                               ELSE IF call.stage = "normalize_features" THEN "coded"
                               ELSE "clean")]
      IN  Once(Done,
               CASE call.stage = "convert_data_types" -> convert_data_types(T)
                 [] call.stage = "handle_duplicates" ->
                        [raised |-> "", frame |-> handle_duplicates(T)]
                 [] call.stage = "handle_missing_values" ->
                        [raised |-> "",
                         frame  |-> handle_missing_values(
                                        T, call.columns_threshold,
                                        call.rows_threshold).frame]
                 [] call.stage = "detect_and_handle_outliers" ->
                        detect_and_handle_outliers(T)
                 [] call.stage = "normalize_features" ->
                        normalize_features(T, call.str_columns))

StageRaw ==
    [columns |-> DF_COLUMNS,
     rows |-> << RawRow("B", <<2, 1, 2020>>, <<7, 0>>, "WD", RawNumber(400), RawNumber(10)),
                 RawRow("A", <<1, 2, 2020>>, <<7, 0>>, "RH", RawText, RawNumber(10)) >>]

ZeroRows == [columns |-> DF_COLUMNS, rows |-> <<>>]

StageClean(st1, c1, v1, st2, c2, v2) ==
    [columns |-> DF_COLUMNS,
     rows |-> << CleanRow(st1, <<2020, 1, 1>>, <<7, 0>>, c1, v1, Num(10)),
                 CleanRow(st2, <<2020, 1, 1>>, <<7, 0>>, c2, v2, Num(10)) >>]

InitStages ==
    /\ pc = "stages"
    /\ \E second \in {StageClean("A", "RH", Num(50), "B", "RH", NA),
                       StageClean("A", "RH", Num(50), "A", "RH", Num(1))} :
           heap = << Object(StageRaw, "raw"),
                     Object(ZeroRows, "raw"),
                     Object(StageClean("B", "Temp", Num(-60), "A", "RH", NA), "clean"),
                     Object(second, "clean") >>
    /\ self_ref = 0
    /\ calls = <<>>
    /\ str_cols = <<>>
    /\ NoAcquisition
    /\ data = EmptyDataFrame
    /\ modified_data_frame = EmptyDataFrame
    /\ raised = ""
    /\ columns_threshold = 70
    /\ rows_threshold = 3
    /\ steps = NoSteps
    /\ log = NoLog
    /\ first_result = EmptyDataFrame

\* a call of stage on any object the caller holds, or on None (position 0)
Call(stage) ==
    /\ Len(calls) < MaxCalls
    /\ \E a \in 0..Len(heap), args \in Arguments(stage) :
         LET data_obj == IF a = 0 THEN NoneObject ELSE heap[a]
             self_obj == IF self_ref = 0 THEN ClassObject ELSE heap[self_ref]
             call == [stage |-> stage, arg |-> a, data |-> data_obj,
                      columns_threshold |-> args.columns_threshold,
                      rows_threshold |-> args.rows_threshold,
                      str_columns |-> args.str_columns]
             Record(result, exception) ==
                 Append(calls, [call |-> call, result |-> result, raised |-> exception])
         IN  /\ data_obj.kind \in Accepts(stage)
             /\ \E res \in {stage_result(self_obj, data_obj, call)} :
                  IF res.early
                  THEN /\ heap' = Append(heap, res.object)
                       /\ calls' = Record(Len(heap) + 1, "")
                       /\ raised' = ""
                       /\ UNCHANGED <<self_ref, modified_data_frame>>
                  ELSE \E c \in {copy(heap, a)} :
                       /\ heap' = [c.heap EXCEPT ![c.ref] = res.object]
                       /\ self_ref' = c.ref
                       /\ modified_data_frame' = res.object.frame
                       /\ raised' = res.raised
                       /\ calls' = Record(IF res.raised = "" THEN c.ref ELSE 0,
                                          res.raised)
    /\ UNCHANGED <<pc, data, columns_threshold, rows_threshold, steps, log,
                   first_result, str_cols, acquirers>>

CallConvertDataTypes ==
    /\ pc = "stages"
    /\ Call("convert_data_types")

CallHandleDuplicates ==
    /\ pc = "stages"
    /\ Call("handle_duplicates")

CallHandleMissingValues ==
    /\ pc = "stages"
    /\ Call("handle_missing_values")

CallDetectAndHandleOutliers ==
    /\ pc = "stages"
    /\ Call("detect_and_handle_outliers")

CallNormalizeFeatures ==
    /\ pc = "stages"
    /\ Call("normalize_features")

NextStages ==
    \/ CallConvertDataTypes
    \/ CallHandleDuplicates
    \/ CallHandleMissingValues
    \/ CallDetectAndHandleOutliers
    \/ CallNormalizeFeatures

SpecStages == InitStages /\ [][NextStages]_vars

----------------------------------------------------------------------------
(* Claims about calls in any order *)

\* C16: each of the five stages, called with the null reference or with a
\* table without rows, returns an empty table, which is an object and not the
\* null reference, and does not raise, whatever its other arguments and the
\* calls made before.
C16_EmptyInEmptyOut ==
    \A k \in 1..Len(calls) :
        (calls[k].call.data.kind = "None" \/ Len(calls[k].call.data.frame.rows) = 0) =>
            /\ calls[k].raised = ""
            /\ calls[k].result \in 1..Len(heap)
            /\ heap[calls[k].result].kind # "None"
            /\ heap[calls[k].result].frame = EmptyDataFrame

\* after a call that left a table with rows in self.modified_data_frame, a
\* stage is called with None, or with a table of fifteen columns and no row
C16_Witness ==
    /\ Len(calls) = 2
    /\ calls[1].raised = ""
    /\ Len(heap[calls[1].result].frame.rows) > 0
    /\ \/ calls[2].call.data.kind = "None"
       \/ calls[2].call.data.frame = ZeroRows
    /\ calls[2].call.stage = "handle_missing_values"
    /\ calls[2].call.columns_threshold = 10
    /\ heap[calls[2].result].frame = EmptyDataFrame

\* C18: what a call returns or raises is what the same call makes on a
\* processor that has made no call, so two calls with the same stage and
\* arguments agree whatever was called before; normalize_features takes its
\* codes from the table it is given.
C18_NoDependenceOnEarlierCalls ==
    /\ \A k \in 1..Len(calls) :
           LET fresh == stage_result(ClassObject, calls[k].call.data, calls[k].call)
           IN  /\ calls[k].raised = fresh.raised
               /\ calls[k].raised = "" =>
                      /\ calls[k].result \in 1..Len(heap)
                      /\ heap[calls[k].result] = fresh.object
    /\ \A j, k \in 1..Len(calls) :
           (/\ calls[j].call.stage = calls[k].call.stage
            /\ calls[j].call.data.kind = calls[k].call.data.kind
            /\ calls[j].call.data = calls[k].call.data
            /\ calls[j].call.columns_threshold = calls[k].call.columns_threshold
            /\ calls[j].call.rows_threshold = calls[k].call.rows_threshold
            /\ calls[j].call.str_columns = calls[k].call.str_columns
            /\ calls[j].raised = "") =>
               /\ calls[k].raised = ""
               /\ heap[calls[j].result] = heap[calls[k].result]

\* two calls of normalize_features on tables that list the stations as B, A
\* and as A, B: station B is coded 1 by the first call and 2 by the second
C18_Witness ==
    /\ Len(calls) = 2
    /\ calls[1].call.stage = "normalize_features"
    /\ calls[2].call.stage = "normalize_features"
    /\ calls[1].call.str_columns = <<"Station">>
    /\ calls[2].call.str_columns = <<"Station">>
    /\ ColumnOf(calls[1].call.data.frame, "Station") = <<"B", "A">>
    /\ ColumnOf(calls[2].call.data.frame, "Station") = <<"A", "B">>
    /\ ColumnOf(heap[calls[1].result].frame, "Station") = <<Num(1), Num(2)>>
    /\ ColumnOf(heap[calls[2].result].frame, "Station") = <<Num(1), Num(2)>>

\* C19: a call changes no object that existed before it: neither the table
\* passed to it nor a table returned by an earlier call.
C19_NoObjectMutated ==
    [][\A i \in 1..Len(heap) : Len(heap') >= i /\ heap'[i] = heap[i]]_vars

\* the table convert_data_types returned is passed to handle_missing_values,
\* which returns a table without the RH column while the table passed in,
\* bound to self.modified_data_frame until then, still has it
C19_Witness ==
    /\ Len(calls) = 2
    /\ calls[1].call.stage = "convert_data_types"
    /\ calls[1].result # 0
    /\ calls[2].call.stage = "handle_missing_values"
    /\ calls[2].call.arg = calls[1].result
    /\ calls[2].result # 0
    /\ self_ref = calls[2].result
    /\ "RH" \in Range(heap[calls[1].result].frame.columns)
    /\ "RH" \notin Range(heap[calls[2].result].frame.columns)
    /\ Len(heap[calls[2].result].frame.rows) > 0

----------------------------------------------------------------------------
(* The acquirers: APIDataAcquirer (src/src/api_data_acquirer.py) and        *)
(* WebScraper (src/src/web_scraper.py).  A row they build is a function on  *)
(* DF_COLUMNS; a Date is <<day, month, year>>, a Time <<hour, minute>>, a   *)
(* measurement a raw cell.  Python's None is "" in Station, <<>> in Date    *)
(* and Time, and an empty cell in a measurement column.                     *)

MaxReadings == 2

NoStation == ""

NoDate == <<>>

NoTime == <<>>

NoDatetime == <<>>

api_keys == {"BP", "WS", "Rain", "WD", "RH", "TG"}

API_TO_DF(name) ==
    CASE name = "BP" -> "Pressure"
      [] name = "RH" -> "RH"
      [] name = "TG" -> "Temp"
      [] name = "WD" -> "WD"
      [] name = "WS" -> "WS"
      [] name = "Rain" -> "PREC"

\* for key in rows_data: rows_data[key].append(None)
NoneRow ==
    [c \in Range(DF_COLUMNS) |->
        IF c = "Station" THEN NoStation
        ELSE IF c = "Date" THEN NoDate
        ELSE IF c = "Time" THEN NoTime
        ELSE RawNaN]

\* for channel in row_channels: the last row of rows_data after the loop
RECURSIVE channel_loop(_, _, _, _)
channel_loop(row, row_channels, converted_date, station) ==
    IF row_channels = <<>> THEN row
    ELSE LET channel == Head(row_channels)
             keyed == [row EXCEPT !["Station"] = station,
                                  !["Date"] = converted_date[1],
                                  !["Time"] = converted_date[2]]
             valued == IF channel.valid /\ channel.name \in api_keys
                       THEN [keyed EXCEPT ![API_TO_DF(channel.name)] =
                                              RawNumber(channel.value)]
                       ELSE keyed
         IN  channel_loop(valued, Tail(row_channels), converted_date, station)

extract_hourly_data(rows, selected_row_data, converted_date, station) ==
    Append(rows, channel_loop(NoneRow, selected_row_data.channels,
                              converted_date, station))

\* for selected_row_data in monthly_data_by_interval: rows_data after the loop
RECURSIVE monthly_loop(_, _, _)
monthly_loop(rows, monthly_data_by_interval, station) ==
    IF monthly_data_by_interval = <<>> THEN rows
    ELSE LET selected_row_data == Head(monthly_data_by_interval)
             row_date == selected_row_data.datetime
             next == IF row_date # NoDatetime /\ row_date[2] \in Range(HOURS_PER_DAY)
                     THEN extract_hourly_data(rows, selected_row_data, row_date, station)
                     ELSE rows
         IN  monthly_loop(next, Tail(monthly_data_by_interval), station)

\* the readings of a response: with or without a datetime, at a sampling
\* hour or not, with no channel, a valid known channel, an invalid one
\* beside a valid one, or an unknown channel
Channel(name, valid, value) == [name |-> name, valid |-> valid, value |-> value]

Readings ==
    {[datetime |-> dt, channels |-> ch] :
        dt \in {NoDatetime,
                << <<1, 2, 2020>>, <<7, 0>> >>,
                << <<1, 2, 2020>>, <<8, 0>> >>,
                << <<1, 2, 2020>>, <<19, 0>> >>,
                << <<2, 2, 2020>>, <<1, 0>> >>},
        ch \in {<<>>,
                <<Channel("RH", TRUE, 50)>>,
                <<Channel("RH", FALSE, 50), Channel("TG", TRUE, 20)>>,
                <<Channel("Grad", TRUE, 5)>>}}

\* the rows of a page of the scraper: the text of the date cell, hour first,
\* and the text of the cells of the data table, whose only column is RH
Elements ==
    {[text |-> <<hour, <<1, 2, 2020>>>>, td |-> cell] :
        hour \in {<<7, 0>>, <<8, 0>>, <<13, 0>>},
        cell \in {RawNumber(50), RawText}}

\* __get_data_from_table on the elements whose hour is in hours_per_day: the
\* rows of new_df[common_columns] as pd.concat adds them to self.df
RECURSIVE get_data_from_table(_, _)
get_data_from_table(station_name, elements) ==
    IF elements = <<>> THEN <<>>
    ELSE LET element == Head(elements)
             rest == get_data_from_table(station_name, Tail(elements))
         IN  IF element.text[1] \in Range(HOURS_PER_DAY)
             THEN << [NoneRow EXCEPT !["Station"] = station_name,
                                     !["Date"] = element.text[2],
                                     !["Time"] = element.text[1],
                                     !["RH"] = element.td] >> \o rest
             ELSE rest

\* DataFrame.head(1)
head1(rows) == IF rows = <<>> THEN <<>> ELSE <<rows[1]>>

InitAcquire ==
    /\ pc \in {"api", "scraper"}
    /\ NoAcquisition
    /\ str_cols = <<>>
    /\ heap = <<>>
    /\ self_ref = 0
    /\ calls = <<>>
    /\ data = EmptyDataFrame
    /\ modified_data_frame = EmptyDataFrame
    /\ raised = ""
    /\ columns_threshold = 70
    /\ rows_threshold = 3
    /\ steps = NoSteps
    /\ log = NoLog
    /\ first_result = EmptyDataFrame

\* APIDataAcquirer.__fetch_monthly_data on the response for one month of
\* a station: an empty data list returns without saving; otherwise the rows
\* are extracted, the next month is written as the range to fetch and all
\* of rows_data is added to the raw file
FetchMonthlyData ==
    /\ pc = "api"
    /\ \E station \in Stations,
          monthly_data_by_interval \in SeqsUpTo(Readings, MaxReadings) :
         IF monthly_data_by_interval = <<>>
         THEN UNCHANGED <<rows_data, selected_stations, raw_file>>
         ELSE \E rows \in {monthly_loop(rows_data, monthly_data_by_interval, station)} :
                /\ rows_data' = rows
                /\ selected_stations' =
                       [selected_stations EXCEPT ![station] = <<@[1] + 1, @[2]>>]
                /\ raw_file' = raw_file \o rows
    /\ pc' = "api_done"
    /\ UNCHANGED <<data, modified_data_frame, raised, columns_threshold,
                   rows_threshold, steps, log, first_result, str_cols, heap,
                   self_ref, calls, df, latest_fetched_date, loops>>

\* WebScraper.__get_current_station_and_date_data for a station with one
\* page of results: the rows at the sampling hours join self.df, then
\* save_df adds self.df to the raw file and keeps its first row
GetCurrentStationAndDateData ==
    /\ pc = "scraper"
    /\ \E station_name \in Stations, elements \in SeqsUpTo(Elements, MaxReadings) :
         \E fetched \in {get_data_from_table(station_name, elements)} :
            /\ raw_file' = raw_file \o (df \o fetched)
            /\ df' = head1(df \o fetched)
            /\ latest_fetched_date' =
                   IF fetched = <<>> THEN NoDate ELSE fetched[Len(fetched)]["Date"]
    /\ pc' = "scraper_done"
    /\ UNCHANGED <<data, modified_data_frame, raised, columns_threshold,
                   rows_threshold, steps, log, first_result, str_cols, heap,
                   self_ref, calls, rows_data, selected_stations, loops>>

NextAcquire == FetchMonthlyData \/ GetCurrentStationAndDateData

SpecAcquire == InitAcquire /\ [][NextAcquire]_vars

\* C20: every row that the API acquirer or the web scraper adds to the raw
\* table has a Station, a Date and a Time, and its Time is one of the
\* sampling hours 01:00, 07:00, 13:00, 19:00.
C20_AppendedRowsKeyedAtSamplingHours ==
    \A i \in 1..Len(raw_file) :
        /\ raw_file[i]["Station"] # NoStation
        /\ raw_file[i]["Date"] # NoDate
        /\ raw_file[i]["Time"] \in Range(HOURS_PER_DAY)

----------------------------------------------------------------------------
(* The parameter file of DataUtils (src/data_utils.py).  A Python value is  *)
(* a record of one field, named by its type and holding its content; the    *)
(* file is absent, holds text that is no JSON, a JSON array, or a JSON      *)
(* object given by its keys and the Python values json.load builds for      *)
(* them.                                                                    *)

PyValue(type, value) == [t \in {type} |-> value]

TypeOf(obj) == CHOOSE t \in DOMAIN obj : TRUE

ValueOf(obj) == obj[TypeOf(obj)]

PyNone == PyValue("NoneType", <<>>)

\* json.dump raises TypeError on a value that is none of dict, list, tuple,
\* str, int, float, bool and None
Serializable(obj) == TypeOf(obj) # "object"

\* the value json.load builds from what json.dump wrote: a tuple is written
\* as an array and read as a list
to_json(obj) ==
    IF TypeOf(obj) = "tuple" THEN PyValue("list", ValueOf(obj)) ELSE obj

NotJSON == [kind |-> "invalid", object |-> <<>>]

JSONArray == [kind |-> "array", object |-> <<>>]

JSONObject(object) == [kind |-> "object", object |-> object]

\* DataUtils.save_data_params in mode 'w': the file after the call.  open or
\* json.load failing, and the assignment failing on an array, are caught
\* before the file is opened for writing; a TypeError of json.dump is caught
\* after open(file_path, 'w') emptied the file and part of the text was
\* written
save_data_params(file, key, obj) ==
    IF file.kind # "object" THEN file
    ELSE IF ~Serializable(obj) THEN NotJSON
    ELSE JSONObject([k \in DOMAIN file.object \cup {key} |->
                        IF k = key THEN to_json(obj) ELSE file.object[k]])

load_data_params_EmptyDictForMissingKey(file, key) ==
    IF file.kind = "object"
    THEN IF key \in DOMAIN file.object THEN file.object[key]
         ELSE PyValue("dict", <<>>)
    ELSE PyNone

\* DataUtils.load_data_params: the value returned
load_data_params(file, key) ==
    IF file.kind = "object" /\ key \in DOMAIN file.object
    THEN file.object[key]
    ELSE PyNone

----------------------------------------------------------------------------
(* APIDataAcquirer.fetch_all_data over the selected stations and the months *)
(* of their date ranges.  A month is its number in 2020; a date range is    *)
(* <<first month, last month>>.                                             *)

MaxMonths == 4

STATION_TRY_LIMIT == 2

\* get_earliest_station_data: the month of the first reading of a station
EarliestMonth(station) == IF station = "A" THEN 1 ELSE 2

\* the readings the server holds for a month of a station: one at a
\* sampling hour and one at another hour
MonthData(station, month) ==
    IF month < EarliestMonth(station) THEN <<>>
    ELSE << [datetime |-> << <<1, month, 2020>>, <<7, 0>> >>,
             channels |-> <<Channel("RH", TRUE, 50)>>],
            [datetime |-> << <<1, month, 2020>>, <<8, 0>> >>,
             channels |-> <<Channel("RH", TRUE, 60)>>] >>

\* what get_station_data_by_time_range can return for a month: the
\* readings, a body without readings, an error status, or None when the
\* request raised
Responses(station, month) ==
    {[kind |-> "Response", status_code |-> 200, data |-> MonthData(station, month)],
     [kind |-> "Response", status_code |-> 200, data |-> <<>>],
     [kind |-> "Response", status_code |-> 500, data |-> <<>>],
     [kind |-> "None", status_code |-> 0, data |-> <<>>]}

\* DataUtils.get_all_months
get_all_months(start_date, end_date) ==
    [i \in 1..(end_date - start_date + 1) |-> start_date + i - 1]

\* the file the acquirer loaded its stations from
ParamsOf(stations) ==
    JSONObject([k \in {"API_SELECTED_STATIONS", "DF_COLUMNS"} |->
                   IF k = "API_SELECTED_STATIONS" THEN PyValue("dict", stations)
                   ELSE PyValue("list", DF_COLUMNS)])

\* fetch_all_data before its loop: the stations in order, no row fetched
InitFetch ==
    /\ pc = "station"
    /\ stations_names_ids = <<"A", "B">>
    /\ fetch_counter = 0
    /\ rows_data = <<>>
    /\ \E range \in {<<1, 2>>, <<2, 2>>} :
         selected_stations = [station \in Stations |->
                                 IF station = "A" THEN <<1, MaxMonths>> ELSE range]
    /\ param_file = ParamsOf(selected_stations)
    /\ months = <<>>
    /\ station_no_data_counter = 0
    /\ returned = NoReturn
    /\ current_station_name = ""
    /\ station_index = 0
    /\ retry = 0
    /\ date_picker = <<>>
    /\ row_number = 1
    /\ retry_count = 0
    /\ df = <<>>
    /\ raw_file = <<>>
    /\ latest_fetched_date = <<>>
    /\ str_cols = <<>>
    /\ heap = <<>>
    /\ self_ref = 0
    /\ calls = <<>>
    /\ data = EmptyDataFrame
    /\ modified_data_frame = EmptyDataFrame
    /\ raised = ""
    /\ columns_threshold = 70
    /\ rows_threshold = 3
    /\ steps = NoSteps
    /\ log = NoLog
    /\ first_result = EmptyDataFrame

processor == <<data, modified_data_frame, columns_threshold, rows_threshold,
               steps, log, first_result, str_cols, heap, self_ref, calls>>

scraper == <<df, latest_fetched_date, current_station_name, station_index,
             retry, date_picker, row_number, retry_count>>

\* __fetch_station_data returns value to fetch_all_data, which counts the
\* station and goes on
StationReturns(value) ==
    /\ returned' = [returned EXCEPT !.fetch_station_data = Append(@, value)]
    /\ fetch_counter' = fetch_counter + 1
    /\ pc' = "station"

\* __fetch_station_data up to its loop over the months
FetchStationData ==
    /\ pc = "station"
    /\ fetch_counter < Len(stations_names_ids)
    /\ LET station == stations_names_ids[fetch_counter + 1]
           start_date == selected_stations[station][1]
           end_date == selected_stations[station][2]
           earliest == EarliestMonth(station)
       IN  /\ station_no_data_counter' = 0
           /\ IF start_date >= end_date
              THEN /\ StationReturns("False")
                   /\ UNCHANGED months
              ELSE /\ months' = get_all_months(IF earliest > start_date
                                               THEN earliest ELSE start_date,
                                               end_date)
                   /\ pc' = "month"
                   /\ UNCHANGED <<returned, fetch_counter>>
    /\ UNCHANGED <<processor, scraper, raised, rows_data, raw_file,
                   selected_stations, param_file, stations_names_ids>>

\* one turn of the loop over the months: the request, and for a response
\* with readings __fetch_monthly_data up to the write of the range to fetch
GetStationDataByTimeRange ==
    /\ pc = "month"
    /\ months # <<>>
    /\ LET station == stations_names_ids[fetch_counter + 1]
           month == Head(months)
           end_date == selected_stations[station][2]
       IN  \E res_data_for_station \in Responses(station, month) :
             IF res_data_for_station.kind = "None"
             THEN /\ raised' = "AttributeError"
                  /\ pc' = "raised"
                  /\ UNCHANGED <<rows_data, selected_stations, param_file, months,
                                 station_no_data_counter, returned, fetch_counter>>
             ELSE IF res_data_for_station.status_code # 200
             THEN /\ IF station_no_data_counter > STATION_TRY_LIMIT
                     THEN /\ StationReturns("False")
                          /\ UNCHANGED <<station_no_data_counter, months>>
                     ELSE /\ station_no_data_counter' = station_no_data_counter + 1
                          /\ months' = Tail(months)
                          /\ UNCHANGED <<pc, returned, fetch_counter>>
                  /\ UNCHANGED <<raised, rows_data, selected_stations, param_file>>
             ELSE IF res_data_for_station.data = <<>>
             THEN /\ months' = Tail(months)
                  /\ UNCHANGED <<pc, raised, rows_data, selected_stations, param_file,
                                 station_no_data_counter, returned, fetch_counter>>
             ELSE /\ rows_data' = monthly_loop(rows_data, res_data_for_station.data,
                                               station)
                  /\ selected_stations' =
                         [selected_stations EXCEPT ![station] = <<month + 1, end_date>>]
                  /\ param_file' = save_data_params(param_file, "API_SELECTED_STATIONS",
                                                    PyValue("dict", selected_stations'))
                  /\ pc' = "save_data"
                  /\ UNCHANGED <<raised, months, station_no_data_counter, returned,
                                 fetch_counter>>
    /\ UNCHANGED <<processor, scraper, raw_file, stations_names_ids>>

\* __save_data, called with the frame of the acquirer, which has no row,
\* and all of rows_data; then the next month
SaveData ==
    /\ pc = "save_data"
    /\ raw_file' = raw_file \o rows_data
    /\ months' = Tail(months)
    /\ pc' = "month"
    /\ UNCHANGED <<processor, scraper, raised, rows_data, selected_stations,
                   param_file, stations_names_ids, fetch_counter,
                   station_no_data_counter, returned>>

\* the loop over the months is over
StationDone ==
    /\ pc = "month"
    /\ months = <<>>
    /\ StationReturns("True")
    /\ UNCHANGED <<processor, scraper, raised, rows_data, raw_file,
                   selected_stations, param_file, stations_names_ids, months,
                   station_no_data_counter>>

\* the loop over the stations is over
FetchAllDataReturns ==
    /\ pc = "station"
    /\ fetch_counter >= Len(stations_names_ids)
    /\ returned' = [returned EXCEPT !.fetch_all_data =
                       <<IF fetch_counter = Len(stations_names_ids)
                         THEN "True" ELSE "False">>]
    /\ pc' = "fetch_done"
    /\ UNCHANGED <<processor, scraper, raised, rows_data, raw_file,
                   selected_stations, param_file, stations_names_ids, fetch_counter,
                   months, station_no_data_counter>>

NextFetch ==
    \/ FetchStationData
    \/ GetStationDataByTimeRange
    \/ SaveData
    \/ StationDone
    \/ FetchAllDataReturns

SpecFetch == InitFetch /\ [][NextFetch]_vars

\* C22: fetch_all_data returns True when __fetch_station_data returned True
\* for every station, and False when it returned False for at least one.
C22_FalseWhenAStationFails ==
    pc = "fetch_done" =>
        returned.fetch_all_data =
            <<IF "False" \in Range(returned.fetch_station_data)
              THEN "False" ELSE "True">>

\* C23: __fetch_station_data returns False for a station when at least one
\* of its monthly requests was answered with a status other than 200.
C23_FalseWhenAMonthFails ==
    (pc \in {"station", "fetch_done"} /\ fetch_counter > 0
        /\ station_no_data_counter > 0) =>
            returned.fetch_station_data[fetch_counter] = "False"

\* the rows of a month of a station that belong in the raw file
SampledRows(station, month) == monthly_loop(<<>>, MonthData(station, month), station)

\* C26: no row is added to the raw file a second time: the readings of the
\* source differ in station, date or hour, so the rows of the raw file
\* are pairwise different.
C26_EachRowAppendedOnce ==
    \A i, j \in 1..Len(raw_file) : i # j => raw_file[i] # raw_file[j]

\* the range to fetch that the parameter file holds for a station
Checkpoint(station) ==
    ValueOf(load_data_params(param_file, "API_SELECTED_STATIONS"))[station]

\* C27: in every state of the run of the API acquirer, the raw file holds
\* the sampled rows of every month before the first month of the range to
\* fetch that the parameter file holds for the station.
C27_CheckpointNotAheadOfRawFile ==
    \A station \in Stations, month \in 1..MaxMonths :
        month < Checkpoint(station)[1] =>
            Range(SampledRows(station, month)) \subseteq Range(raw_file)

----------------------------------------------------------------------------
(* WebScraper.acquire_stations_data over the selected stations and the      *)
(* pages of a station.  A page shows the readings of one day, the day of    *)
(* its title, and the next page shows the next day.  The attribute          *)
(* latest_fetched_date is NoDate until it is first assigned.                *)

MaxPages == 2

SAVE_THRESHOLD == 10

max_retries == 10

\* datetime.today()
Today == <<3, 3, 2020>>

\* date_string = '' of __get_data_from_table
EmptyDate == <<0, 0, 0>>

\* str_to_date(self.latest_fetched_date) does not raise
IsDate(date) == date # NoDate /\ date # EmptyDate

\* the order of dates
DateKey(date) == date[3] * 10000 + date[2] * 100 + date[1]

\* date + timedelta(days=1)
add_days_to_date(date) ==
    IF date[1] < DaysInMonth(date[2], date[3]) THEN <<date[1] + 1, date[2], date[3]>>
    ELSE IF date[2] < 12 THEN <<1, date[2] + 1, date[3]>>
    ELSE <<1, 1, date[3] + 1>>

\* the rows of the page of a day: none, one at 08:00, or one at 07:00 and
\* one at 08:00
PageElements(date) ==
    LET element(hour, cell) == [text |-> <<hour, date>>, td |-> RawNumber(cell)]
    IN  {<<>>, <<element(<<8, 0>>, 60)>>,
         <<element(<<7, 0>>, 50), element(<<8, 0>>, 60)>>}

\* the file the scraper loaded its stations from
ScraperParamsOf(stations) ==
    JSONObject([k \in {"SCRAPER_SELECTED_STATIONS", "DF_COLUMNS"} |->
                   IF k = "SCRAPER_SELECTED_STATIONS"
                   THEN PyValue("dict",
                            [station \in DOMAIN stations |->
                                [latest_fetched_date |->
                                     stations[station].latest_fetched_date]])
                   ELSE PyValue("list", DF_COLUMNS)])

\* the order of self.selected_stations.items()
ScraperStations == <<"A", "B">>

\* the scraper as its constructor leaves it
InitScrape ==
    /\ pc = "init_list_of_stations"
    /\ \E a \in {<<20, 2, 2020>>, <<1, 3, 2020>>},
          b \in {<<2, 3, 2020>>, <<3, 3, 2020>>} :
         selected_stations =
             [station \in Stations |->
                 [latest_fetched_date |-> IF station = "A" THEN a ELSE b,
                  station_element |-> ""]]
    /\ param_file = ScraperParamsOf(selected_stations)
    /\ df = <<>>
    /\ raw_file = <<>>
    /\ latest_fetched_date = NoDate
    /\ current_station_name = NoStation
    /\ station_index = 0
    /\ retry = 0
    /\ date_picker = NoDate
    /\ row_number = 1
    /\ retry_count = 0
    /\ returned = NoReturn
    /\ rows_data = <<>>
    /\ stations_names_ids = <<>>
    /\ fetch_counter = 0
    /\ months = <<>>
    /\ station_no_data_counter = 0
    /\ str_cols = <<>>
    /\ heap = <<>>
    /\ self_ref = 0
    /\ calls = <<>>
    /\ data = EmptyDataFrame
    /\ modified_data_frame = EmptyDataFrame
    /\ raised = ""
    /\ columns_threshold = 70
    /\ rows_threshold = 3
    /\ steps = NoSteps
    /\ log = NoLog
    /\ first_result = EmptyDataFrame

api == <<rows_data, stations_names_ids, fetch_counter, months,
         station_no_data_counter>>

\* __init_list_of_stations: the elements found on the page for the stations
InitListOfStations ==
    /\ pc = "init_list_of_stations"
    /\ \E found \in {{"A", "B"}, {"A"}} :
         selected_stations' =
             [station \in Stations |->
                 [selected_stations[station] EXCEPT !.station_element =
                      IF station \in found THEN "div" ELSE ""]]
    /\ pc' = "stations"
    /\ UNCHANGED <<processor, api, raised, df, raw_file, param_file,
                   latest_fetched_date, current_station_name, station_index,
                   retry, date_picker, row_number, retry_count, returned>>

\* one turn of the loop of acquire_stations_data up to the call of
\* __get_current_station_and_date_data
AcquireStation ==
    /\ pc = "stations"
    /\ station_index < Len(ScraperStations)
    /\ LET station_name == ScraperStations[station_index + 1]
           station_data == selected_stations[station_name]
       IN  IF DateKey(station_data.latest_fetched_date) >= DateKey(Today)
           THEN /\ station_index' = station_index + 1
                /\ UNCHANGED <<pc, current_station_name, date_picker, retry,
                               row_number>>
           ELSE /\ current_station_name' = station_name
                /\ IF station_data.station_element # ""
                   THEN /\ date_picker' =
                               add_days_to_date(station_data.latest_fetched_date)
                        /\ retry' = 0
                        /\ row_number' = 1
                        /\ pc' = "page"
                        /\ UNCHANGED station_index
                   ELSE /\ station_index' = station_index + 1
                        /\ UNCHANGED <<pc, date_picker, retry, row_number>>
    /\ UNCHANGED <<processor, api, raised, df, raw_file, param_file,
                   selected_stations, latest_fetched_date, retry_count, returned>>

\* __init_page_params returns value
InitPageParamsReturns(value) ==
    /\ returned' = [returned EXCEPT !.init_page_params = Append(@, value)]
    /\ pc' = IF value = "None" THEN "no_page" ELSE "table"

\* one attempt of __init_page_params: the page loads, the wait times out,
\* or another exception is raised
InitPageParams ==
    /\ pc = "page"
    /\ \E outcome \in {"loads", "TimeoutException", "Exception"} :
         IF outcome = "loads"
         THEN /\ latest_fetched_date' = date_picker
              /\ InitPageParamsReturns("tuple")
              /\ UNCHANGED <<raised, retry, date_picker>>
         ELSE IF outcome = "Exception"
         THEN /\ InitPageParamsReturns("None")
              /\ UNCHANGED <<raised, retry, date_picker, latest_fetched_date>>
         ELSE IF retry >= max_retries - 1
         THEN /\ InitPageParamsReturns("None")
              /\ UNCHANGED <<raised, retry, date_picker, latest_fetched_date>>
         ELSE IF ~IsDate(latest_fetched_date)
         THEN /\ raised' = IF latest_fetched_date = NoDate
                           THEN "AttributeError" ELSE "ValueError"
              /\ pc' = "raised"
              /\ UNCHANGED <<returned, retry, date_picker, latest_fetched_date>>
         ELSE LET advanced == IF retry = 0
                              THEN add_days_to_date(latest_fetched_date)
                              ELSE latest_fetched_date
              IN  IF DateKey(advanced) >= DateKey(Today)
                  THEN /\ latest_fetched_date' = advanced
                       /\ InitPageParamsReturns("None")
                       /\ UNCHANGED <<raised, retry, date_picker>>
                  ELSE /\ latest_fetched_date' = add_days_to_date(advanced)
                       /\ date_picker' = add_days_to_date(advanced)
                       /\ retry' = retry + 1
                       /\ UNCHANGED <<pc, raised, returned>>
    /\ UNCHANGED <<processor, api, df, raw_file, param_file, selected_stations,
                   current_station_name, station_index, row_number, retry_count>>

\* WebScraper.save_df of the frame, for the station and the date given
save_df(frame, station_name, date) ==
    /\ selected_stations' =
           [selected_stations EXCEPT ![station_name].latest_fetched_date = date]
    /\ raw_file' = raw_file \o frame
    /\ df' = head1(frame)

\* __get_current_station_and_date_data after __init_page_params returned
\* None, and acquire_stations_data up to the next station
NoPage ==
    /\ pc = "no_page"
    /\ IF Len(df) = 1
       THEN /\ station_index' = station_index + 1
            /\ pc' = "stations"
            /\ UNCHANGED <<raised, selected_stations, raw_file, df>>
       ELSE IF latest_fetched_date = NoDate
       THEN /\ raised' = "AttributeError"
            /\ pc' = "raised"
            /\ UNCHANGED <<station_index, selected_stations, raw_file, df>>
       ELSE /\ save_df(df, current_station_name, latest_fetched_date)
            /\ station_index' = station_index + 1
            /\ pc' = "stations"
            /\ UNCHANGED raised
    /\ UNCHANGED <<processor, api, param_file, latest_fetched_date,
                   current_station_name, retry, date_picker, row_number,
                   retry_count, returned>>

\* the rest of a turn of the loop over the pages once the page is loaded:
\* the rows at the sampling hours join self.df, the frame is saved at the
\* threshold, and after the last page it is saved and the station is left
GetDataFromTable ==
    /\ pc = "table"
    /\ \E elements \in PageElements(latest_fetched_date),
          next_page \in {n \in BOOLEAN : n => row_number < MaxPages} :
         LET fetched == get_data_from_table(current_station_name, elements)
             date_string == IF fetched = <<>> THEN EmptyDate
                            ELSE fetched[Len(fetched)]["Date"]
             frame == df \o fetched
             threshold == row_number >= SAVE_THRESHOLD
             kept == IF threshold THEN head1(frame) ELSE frame
             appended == IF threshold THEN frame ELSE <<>>
         IN  /\ latest_fetched_date' = date_string
             /\ row_number' = IF threshold THEN 2 ELSE row_number + 1
             /\ IF next_page
                THEN /\ df' = kept
                     /\ raw_file' = raw_file \o appended
                     /\ selected_stations' =
                            IF threshold
                            THEN [selected_stations EXCEPT
                                     ![current_station_name].latest_fetched_date =
                                         date_string]
                            ELSE selected_stations
                     /\ date_picker' = add_days_to_date(date_picker)
                     /\ retry' = 0
                     /\ pc' = "page"
                     /\ UNCHANGED station_index
                ELSE /\ save_df(appended \o kept, current_station_name, date_string)
                     /\ station_index' = station_index + 1
                     /\ pc' = "stations"
                     /\ UNCHANGED <<date_picker, retry>>
    /\ UNCHANGED <<processor, api, raised, param_file, current_station_name,
                   retry_count, returned>>

\* the loop over the stations is over
AcquireStationsDataReturns ==
    /\ pc = "stations"
    /\ station_index >= Len(ScraperStations)
    /\ pc' = "acquired"
    /\ UNCHANGED <<processor, api, scraper, raised, raw_file, param_file,
                   selected_stations, returned>>

NextScrape ==
    \/ InitListOfStations
    \/ AcquireStation
    \/ InitPageParams
    \/ NoPage
    \/ GetDataFromTable
    \/ AcquireStationsDataReturns

SpecScrape == InitScrape /\ [][NextScrape]_vars

\* C24: the date that save_df gives a station is in the parameter file:
\* load_data_params of the stations of the scraper returns, for every
\* station, the latest_fetched_date the scraper holds for it.
C24_SavedDateIsLoaded ==
    \A station \in Stations :
        ValueOf(load_data_params(param_file, "SCRAPER_SELECTED_STATIONS"))
            [station].latest_fetched_date
        = selected_stations[station].latest_fetched_date

\* C28: an attempt of __init_page_params ends with the page tuple, with
\* None or with a retry, never with an exception; there are at most ten
\* attempts; and a retry asks for a later date than the attempt before.
C28_AtMostTenAttemptsThenReturns ==
    [][pc = "page" =>
          /\ pc' # "raised"
          /\ retry' < max_retries
          /\ pc' = "page" => DateKey(date_picker') > DateKey(date_picker)]_vars

----------------------------------------------------------------------------
(* scrape_data (src/src/data.py): the attempts to scrape, each of which     *)
(* builds a WebScraper, opens the menu and acquires the data of the         *)
(* stations; any of the three can raise.                                    *)

InitScrapeData ==
    /\ pc = "scrape_data"
    /\ data = EmptyDataFrame
    /\ modified_data_frame = EmptyDataFrame
    /\ raised = ""
    /\ columns_threshold = 70
    /\ rows_threshold = 3
    /\ steps = NoSteps
    /\ log = NoLog
    /\ first_result = EmptyDataFrame
    /\ NoOtherRuns

others == <<data, modified_data_frame, raised, columns_threshold, rows_threshold,
            steps, log, first_result, str_cols, heap, self_ref, calls, rows_data,
            df, raw_file, selected_stations, latest_fetched_date, param_file,
            stations_names_ids, fetch_counter, months, station_no_data_counter,
            returned, current_station_name, station_index, retry, date_picker,
            row_number>>

\* retry_count = 50
ScrapeData ==
    /\ pc = "scrape_data"
    /\ retry_count' = 50
    /\ pc' = "while"
    /\ UNCHANGED others

\* while retry_count > 0, tested after the except block ("while") and after
\* a try block that completed ("completed")
While ==
    /\ pc \in {"while", "completed"}
    /\ pc' = IF retry_count > 0 THEN "WebScraper" ELSE "returned"
    /\ UNCHANGED <<others, retry_count>>

\* a statement of the try block: it completes and next follows, or it raises
\* and the except block counts the attempt down
Try(statement, next) ==
    /\ pc = statement
    /\ \/ /\ pc' = next
          /\ UNCHANGED retry_count
       \/ /\ retry_count' = retry_count - 1
          /\ pc' = "while"
    /\ UNCHANGED others

NewWebScraper == pc = "WebScraper" /\ Try("WebScraper", "open_menu")

OpenMenu == pc = "open_menu" /\ Try("open_menu", "acquire_stations_data")

AcquireStationsData ==
    pc = "acquire_stations_data" /\ Try("acquire_stations_data", "completed")

NextScrapeData ==
    \/ ScrapeData
    \/ While
    \/ NewWebScraper
    \/ OpenMenu
    \/ AcquireStationsData

SpecScrapeData == InitScrapeData /\ [][NextScrapeData]_vars

\* C25: after an attempt in which open_menu and acquire_stations_data
\* completed without an exception scrape_data returns and starts no further
\* attempt; and it makes at most 50 attempts that fail.
C25_ReturnsAfterSuccess ==
    [][/\ pc = "completed" => pc' = "returned"
       /\ pc # "scrape_data" => retry_count' \in 0..50]_vars

----------------------------------------------------------------------------
(* Calls of save_data_params and load_data_params on a parameter file.  A   *)
(* call is recorded with its key, the value given, the file before it and   *)
(* the value returned.                                                      *)

MaxParamCalls == 2

Keys == {"API_SELECTED_STATIONS", "SCRAPER_SELECTED_STATIONS", "DF_COLUMNS"}

\* the values given to save_data_params: the stations of the API acquirer,
\* a date range as a list and as a tuple, a string, None, and a value json
\* cannot write, such as the element of a station
PyValues ==
    {PyValue("dict", [station \in Stations |-> <<1, 2>>]),
     PyValue("list", <<"01/02/2020", "01/03/2020">>),
     PyValue("tuple", <<"01/02/2020", "01/03/2020">>),
     PyValue("str", "01/02/2020"),
     PyValue("object", "WebElement"),
     PyNone}

ParamFiles ==
    {NoFile, NotJSON, JSONArray,
     JSONObject(<<>>),
     JSONObject([k \in {"DF_COLUMNS"} |-> PyValue("list", DF_COLUMNS)]),
     JSONObject([k \in {"DF_COLUMNS", "API_SELECTED_STATIONS"} |->
                    IF k = "DF_COLUMNS" THEN PyValue("list", DF_COLUMNS)
                    ELSE PyValue("dict", [station \in Stations |-> <<1, 1>>])])}

InitParams ==
    /\ pc = "params"
    /\ param_file \in ParamFiles
    /\ calls = <<>>
    /\ str_cols = <<>>
    /\ heap = <<>>
    /\ self_ref = 0
    /\ rows_data = <<>>
    /\ df = <<>>
    /\ raw_file = <<>>
    /\ selected_stations = [station \in Stations |-> <<1, 1>>]
    /\ latest_fetched_date = NoDate
    /\ stations_names_ids = <<>>
    /\ fetch_counter = 0
    /\ months = <<>>
    /\ station_no_data_counter = 0
    /\ returned = NoReturn
    /\ current_station_name = NoStation
    /\ station_index = 0
    /\ retry = 0
    /\ date_picker = NoDate
    /\ row_number = 1
    /\ retry_count = 0
    /\ data = EmptyDataFrame
    /\ modified_data_frame = EmptyDataFrame
    /\ raised = ""
    /\ columns_threshold = 70
    /\ rows_threshold = 3
    /\ steps = NoSteps
    /\ log = NoLog
    /\ first_result = EmptyDataFrame

ParamCall(name, key, obj, result) ==
    [name |-> name, key |-> key, obj |-> obj, before |-> param_file,
     result |-> result]

no_params == <<pc, data, modified_data_frame, raised, columns_threshold,
               rows_threshold, steps, log, first_result, str_cols, heap,
               self_ref, rows_data, df, raw_file, selected_stations,
               latest_fetched_date, stations_names_ids, fetch_counter, months,
               station_no_data_counter, returned, current_station_name,
               station_index, retry, date_picker, row_number, retry_count>>

SaveDataParams ==
    /\ pc = "params"
    /\ Len(calls) < MaxParamCalls
    /\ \E key \in Keys, obj \in PyValues :
         /\ param_file' = save_data_params(param_file, key, obj)
         /\ calls' = Append(calls, ParamCall("save_data_params", key, obj, PyNone))
    /\ UNCHANGED no_params

LoadDataParams ==
    /\ pc = "params"
    /\ Len(calls) < MaxParamCalls
    /\ \E key \in Keys :
         calls' = Append(calls, ParamCall("load_data_params", key, PyNone,
                                          load_data_params(param_file, key)))
    /\ UNCHANGED <<no_params, param_file>>

NextParams == SaveDataParams \/ LoadDataParams

SpecParams == InitParams /\ [][NextParams]_vars

\* the parameter file after the i-th call
FileAfter(i) == IF i < Len(calls) THEN calls[i + 1].before ELSE param_file

\* C29: on a file that holds a JSON object, a load after a save of the same
\* key returns the value saved and the save left the values of the other
\* keys as they were; on an absent file a save leaves the file absent.
C29_SaveThenLoad ==
    \A i \in 1..Len(calls) :
        calls[i].name = "save_data_params" =>
            /\ calls[i].before.kind = "object" =>
                  /\ FileAfter(i).kind = "object"
                  /\ \A k \in DOMAIN calls[i].before.object \ {calls[i].key} :
                        /\ k \in DOMAIN FileAfter(i).object
                        /\ FileAfter(i).object[k] = calls[i].before.object[k]
                  /\ (i < Len(calls) /\ calls[i + 1].name = "load_data_params"
                        /\ calls[i + 1].key = calls[i].key) =>
                          /\ TypeOf(calls[i + 1].result) = TypeOf(calls[i].obj)
                          /\ ValueOf(calls[i + 1].result) = ValueOf(calls[i].obj)
            /\ calls[i].before.kind = "absent" => FileAfter(i).kind = "absent"

\* C30: load_data_params returns None when the file is absent, is not JSON
\* or does not hold the key, and it leaves the file as it was.
C30_LoadReturnsNone ==
    \A i \in 1..Len(calls) :
        calls[i].name = "load_data_params" =>
            /\ FileAfter(i) = calls[i].before
            /\ (\/ calls[i].before.kind \in {"absent", "invalid"}
                \/ /\ calls[i].before.kind = "object"
                   /\ calls[i].key \notin DOMAIN calls[i].before.object) =>
                  calls[i].result = PyNone

\* a load of a key that a file with other keys does not hold, after a load
\* on the same file
C30_Witness ==
    /\ Len(calls) = 2
    /\ calls[1].name = "load_data_params"
    /\ calls[2].name = "load_data_params"
    /\ calls[2].before.kind = "object"
    /\ DOMAIN calls[2].before.object # {}
    /\ calls[2].key \notin DOMAIN calls[2].before.object
    /\ calls[2].result = PyNone

====
